---------------------------- MODULE Spec2Model ----------------------------
(***************************************************************************)
(* September AMS Analysis: the account classifier, the segment aggregator  *)
(* and the OTP calculator of the three Streamlit scripts of the repository *)
(*                                                                         *)
(*   app1  src/app1.py                   the hardened script               *)
(*   P1    src/unnamed/part_000:1-349    the sheet-aware script            *)
(*   P2    src/unnamed/part_000:351-872  the earlier script                *)
(*                                                                         *)
(* Text is a sequence of one-character strings, so that str.lower,         *)
(* str.strip, the substring test ("kw in name") and the regular            *)
(* expressions are computed as Python computes them.  A cell of a sheet is *)
(* a record [kind, text, num]: kind "str" (text), "nan" (an empty cell,    *)
(* which pandas reads as NaN), "num" (a number; in a date column a raw     *)
(* serial), "ts" (a date cell read as a Timestamp, in days from            *)
(* 1899-12-30).  A percentage is kept in hundredths of a percent: 66.67 is *)
(* 6667.                                                                   *)
(***************************************************************************)
EXTENDS Integers, Sequences, FiniteSets, TLC

-----------------------------------------------------------------------------
(* Text *)

UPPER == <<"A","B","C","D","E","F","G","H","I","J","K","L","M",
           "N","O","P","Q","R","S","T","U","V","W","X","Y","Z">>

LOWER == <<"a","b","c","d","e","f","g","h","i","j","k","l","m",
           "n","o","p","q","r","s","t","u","v","w","x","y","z">>

DIGITS == <<"0","1","2","3","4","5","6","7","8","9">>

\* str.isspace of one character (the whitespace str.strip removes and \s matches)
IsSpace(c) == c \in {" ", "\t", "\n", "\r"}

\* one character of str.lower()
LowerChar(c) ==
    IF \E j \in 1..26 : UPPER[j] = c
    THEN LOWER[CHOOSE j \in 1..26 : UPPER[j] = c]
    ELSE c

\* one character of str.upper()
UpperChar(c) ==
    IF \E j \in 1..26 : LOWER[j] = c
    THEN UPPER[CHOOSE j \in 1..26 : LOWER[j] = c]
    ELSE c

\* str.lower()
Lower(s) == [i \in 1..Len(s) |-> LowerChar(s[i])]

\* str.upper()
Upper(s) == [i \in 1..Len(s) |-> UpperChar(s[i])]

\* str.strip(): leading and trailing whitespace removed
Strip(s) ==
    IF \A i \in 1..Len(s) : IsSpace(s[i])
    THEN << >>
    ELSE LET a == CHOOSE i \in 1..Len(s) :
                    ~IsSpace(s[i]) /\ \A j \in 1..(i-1) : IsSpace(s[j])
             b == CHOOSE i \in 1..Len(s) :
                    ~IsSpace(s[i]) /\ \A j \in (i+1)..Len(s) : IsSpace(s[j])
         IN  SubSeq(s, a, b)

\* the literal lit stands in s at position i
MatchAt(s, lit, i) ==
    /\ i >= 1
    /\ i + Len(lit) - 1 <= Len(s)
    /\ \A j \in 1..Len(lit) : s[i + j - 1] = lit[j]

\* Python's "kw in s" on two strings
Contains(s, kw) == \E i \in 1..(Len(s) - Len(kw) + 1) : MatchAt(s, kw, i)

\* x is the first entry of the list
InList_first(list, x) == Len(list) > 0 /\ list[1] = x

\* Python's "x in list"
InList(list, x) == \E i \in 1..Len(list) : list[i] = x

\* any(k in s for k in keywords), the keyword loops of is_healthcare / is_aviation
AnyKeyword(s, keywords) == \E i \in 1..Len(keywords) : Contains(s, keywords[i])

RECURSIVE DecStr(_)
\* str(n) of a non-negative integer
DecStr(n) == IF n < 10 THEN <<DIGITS[n + 1]>>
             ELSE DecStr(n \div 10) \o <<DIGITS[(n % 10) + 1]>>

-----------------------------------------------------------------------------
(* Cells *)

StrCell(t) == [kind |-> "str", text |-> t, num |-> 0]
NumCell(n) == [kind |-> "num", text |-> << >>, num |-> n]
NaN        == [kind |-> "nan", text |-> << >>, num |-> 0]

\* pandas notna()
NotNa(c) == c.kind # "nan"

\* Python truthiness, as in "if not account_name": '' and 0 are false, NaN is true
Truthy(c) ==
    CASE c.kind = "str" -> c.text # << >>
      [] c.kind = "num" -> c.num # 0
      [] OTHER          -> TRUE

\* str(x), and Series.astype(str) on one cell: NaN becomes 'nan'
\* (a Timestamp stands in date columns only, which are never converted)
PyStr(c) ==
    CASE c.kind = "str" -> c.text
      [] c.kind = "num" -> DecStr(c.num)
      [] c.kind = "nan" -> <<"n","a","n">>

-----------------------------------------------------------------------------
(* Configuration *)

\* src/app1.py:43-59 (the same fifteen names at part_000:37-53 and :394-410)
RP_ACCOUNTS == <<
    <<"M","a","r","k","e","n"," ","L","t","d">>,   \* 'Marken Ltd'
    <<"Q","I","A","G","E","N"," ","G","m","b","H"," ","W","e","e","k","l","y">>,   \* 'QIAGEN GmbH Weekly'
    <<"F","i","s","h","e","r"," ","C","l","i","n","i","c","a","l"," ","S","e","r","v","i","c","e","s">>,   \* 'Fisher Clinical Services'
    <<"A","g","i","l","e","n","t"," ","T","e","c","h","n","o","l","o","g","i","e","s"," ","D","e","u","t","s","c","h","l","a","n","d"," ","G","m","b","H">>,   \* 'Agilent Technologies Deutschland GmbH'
    <<"P","a","t","h","e","o","n"," ","B","i","o","l","o","g","i","c","s"," ","B","V">>,   \* 'Patheon Biologics BV'
    <<"D","e","l","p","h","a","r","m"," ","D","e","v","e","l","o","p","m","e","n","t"," ","L","e","i","d","e","n"," ","B","V">>,   \* 'Delpharm Development Leiden BV'
    <<"A","b","b","o","t","t"," ","B","i","o","l","o","g","i","c","a","l","s"," ","B","V">>,   \* 'Abbott Biologicals BV'
    <<"F","i","s","h","e","r"," ","B","i","o","S","e","r","v","i","c","e","s"," ","N","e","t","h","e","r","l","a","n","d","s"," ","B","V">>,   \* 'Fisher BioServices Netherlands BV'
    <<"A","b","b","o","t","t"," ","H","e","a","l","t","h","c","a","r","e"," ","P","r","o","d","u","c","t","s"," ","B","V">>,   \* 'Abbott Healthcare Products BV'
    <<"U","N","I","V","E","R","S","A","L"," ","P","I","C","T","U","R","E","S"," ","I","N","T","E","R","N","A","T","I","O","N","A","L"," ","N","E","T","H","E","R","L","A","N","D","S">>,   \* 'UNIVERSAL PICTURES INTERNATIONAL NETHERLANDS'
    <<"P","a","t","h","e","o","n"," ","U","K">>,   \* 'Patheon UK'
    <<"V","E","R","A","C","Y","T","E"," ","I","N","C">>,   \* 'VERACYTE INC'
    <<"T","o","s","o","h"," ","E","u","r","o","p","e">>,   \* 'Tosoh Europe'
    <<"E","x","n","e","t"," ","S","e","r","v","i","c","e","s">>,   \* 'Exnet Services'
    <<"N","o","b","e","l"," ","B","i","o","c","a","r","e"," ","D","i","s","t","r","i","b","u","t","i","o","n"," ","C","e","n","t","e","r"," ","B","V">>   \* 'Nobel Biocare Distribution Center BV'
  >>

\* src/app1.py:62-78 (identical at part_000:413-429)
HEALTHCARE_KEYWORDS == <<
    <<"p","h","a","r","m","a">>,   \* 'pharma'
    <<"m","e","d","i","c","a","l">>,   \* 'medical'
    <<"h","e","a","l","t","h">>,   \* 'health'
    <<"b","i","o">>,   \* 'bio'
    <<"c","l","i","n","i","c","a","l">>,   \* 'clinical'
    <<"h","o","s","p","i","t","a","l">>,   \* 'hospital'
    <<"d","i","a","g","n","o","s","t","i","c">>,   \* 'diagnostic'
    <<"t","h","e","r","a","p","e","u","t">>,   \* 'therapeut'
    <<"l","a","b","o","r","a","t","o","r">>,   \* 'laborator'
    <<"p","a","t","h","o","l","o","g">>,   \* 'patholog'
    <<"i","m","a","g","i","n","g">>,   \* 'imaging'
    <<"s","u","r","g","i","c","a","l">>,   \* 'surgical'
    <<"o","n","c","o","l","o","g">>,   \* 'oncolog'
    <<"c","a","r","d","i","o">>,   \* 'cardio'
    <<"n","e","u","r","o">>,   \* 'neuro'
    <<"r","a","d","i","o","l">>,   \* 'radiol'
    <<"g","e","n","e","t","i","c">>,   \* 'genetic'
    <<"g","e","n","o","m","i","c">>,   \* 'genomic'
    <<"m","o","l","e","c","u","l","a","r">>,   \* 'molecular'
    <<"c","e","l","l">>,   \* 'cell'
    <<"t","i","s","s","u","e">>,   \* 'tissue'
    <<"o","r","g","a","n">>,   \* 'organ'
    <<"t","r","a","n","s","p","l","a","n","t">>,   \* 'transplant'
    <<"v","a","c","c","i","n","e">>,   \* 'vaccine'
    <<"a","n","t","i","b","o","d">>,   \* 'antibod'
    <<"p","r","o","t","e","i","n">>,   \* 'protein'
    <<"p","e","p","t","i","d","e">>,   \* 'peptide'
    <<"l","i","f","e"," ","s","c","i","e","n","c","e">>,   \* 'life science'
    <<"l","i","f","e","s","c","i","e","n","c","e">>,   \* 'lifescience'
    <<"m","e","d","i","c">>,   \* 'medic'
    <<"t","h","e","r","a","p">>,   \* 'therap'
    <<"d","i","a","g","n","o","s","t">>,   \* 'diagnost'
    <<"c","l","i","n","i","c">>,   \* 'clinic'
    <<"p","a","t","i","e","n","t">>,   \* 'patient'
    <<"t","r","e","a","t","m","e","n","t">>,   \* 'treatment'
    <<"d","i","s","e","a","s","e">>,   \* 'disease'
    <<"d","r","u","g">>,   \* 'drug'
    <<"d","o","s","e">>,   \* 'dose'
    <<"i","s","o","t","o","p","e">>,   \* 'isotope'
    <<"r","a","d","i","o">>,   \* 'radio'
    <<"n","u","c","l","e","a","r">>,   \* 'nuclear'
    <<"p","e","t">>,   \* 'pet'
    <<"s","p","e","c","t">>,   \* 'spect'
    <<"i","m","m","u","n","o">>,   \* 'immuno'
    <<"a","s","s","a","y">>,   \* 'assay'
    <<"r","e","a","g","e","n","t">>,   \* 'reagent'
    <<"s","p","e","c","i","m","e","n">>,   \* 'specimen'
    <<"s","a","m","p","l","e">>,   \* 'sample'
    <<"b","l","o","o","d">>,   \* 'blood'
    <<"p","l","a","s","m","a">>,   \* 'plasma'
    <<"s","e","r","u","m">>,   \* 'serum'
    <<"b","i","o","b","a","n","k">>,   \* 'biobank'
    <<"c","r","y","o">>,   \* 'cryo'
    <<"s","t","e","m">>,   \* 'stem'
    <<"m","a","r","k","e","n">>,   \* 'marken'
    <<"f","i","s","h","e","r">>,   \* 'fisher'
    <<"c","a","r","d","i","n","a","l">>,   \* 'cardinal'
    <<"p","a","t","h","e","o","n">>,   \* 'patheon'
    <<"o","r","g","a","n","o","x">>,   \* 'organox'
    <<"q","i","a","g","e","n">>,   \* 'qiagen'
    <<"a","b","b","o","t","t">>,   \* 'abbott'
    <<"t","o","s","o","h">>,   \* 'tosoh'
    <<"l","e","i","c","a">>,   \* 'leica'
    <<"s","o","p","h","i","a">>,   \* 'sophia'
    <<"c","e","r","u","s">>,   \* 'cerus'
    <<"s","i","r","t","e","x">>,   \* 'sirtex'
    <<"l","a","n","t","h","e","u","s">>,   \* 'lantheus'
    <<"a","v","i","d">>,   \* 'avid'
    <<"p","e","t","n","e","t">>,   \* 'petnet'
    <<"i","n","n","e","r","v","a","t","e">>,   \* 'innervate'
    <<"n","d","r","i">>,   \* 'ndri'
    <<"u","n","i","v","e","r","s","i","t","y">>,   \* 'university'
    <<"i","n","s","t","i","t","u","t">>,   \* 'institut'
    <<"p","e","n","t","e","c">>,   \* 'pentec'
    <<"s","e","x","t","o","n">>,   \* 'sexton'
    <<"a","t","o","m","i","c","s">>,   \* 'atomics'
    <<"c","u","r","i","u","m">>,   \* 'curium'
    <<"m","e","d","t","r","o","n","i","c">>,   \* 'medtronic'
    <<"c","a","t","a","l","e","n","t">>,   \* 'catalent'
    <<"d","e","l","p","h","a","r","m">>,   \* 'delpharm'
    <<"v","e","r","a","c","y","t","e">>,   \* 'veracyte'
    <<"e","c","k","e","r","t">>,   \* 'eckert'
    <<"z","i","e","g","l","e","r">>,   \* 'ziegler'
    <<"s","h","i","n","e">>,   \* 'shine'
    <<"a","l","t","a","s","c","i","e","n","c","e","s">>,   \* 'altasciences'
    <<"o","n","k","o","s">>,   \* 'onkos'
    <<"b","i","o","l","a","b","s">>,   \* 'biolabs'
    <<"b","i","o","s","y","s","t","e","m">>,   \* 'biosystem'
    <<"l","i","f","e"," ","m","o","l","e","c","u","l","a","r">>,   \* 'life molecular'
    <<"c","e","r","v","e","a","u">>,   \* 'cerveau'
    <<"m","e","i","l","l","e","u","r">>,   \* 'meilleur'
    <<"s","a","m","s","u","n","g"," ","b","i","o">>,   \* 'samsung bio'
    <<"a","g","i","l","e","n","t">>   \* 'agilent'
  >>

\* src/app1.py:81-92 (identical at part_000:432-443)
AVIATION_KEYWORDS == <<
    <<"a","i","r","l","i","n","e">>,   \* 'airline'
    <<"a","i","r","p","o","r","t">>,   \* 'airport'
    <<"c","a","r","g","o">>,   \* 'cargo'
    <<"f","r","e","i","g","h","t">>,   \* 'freight'
    <<"l","o","g","i","s","t","i","c">>,   \* 'logistic'
    <<"t","r","a","n","s","p","o","r","t">>,   \* 'transport'
    <<"e","x","p","r","e","s","s">>,   \* 'express'
    <<"d","i","s","n","e","y">>,   \* 'disney'
    <<"p","i","c","t","u","r","e","s">>,   \* 'pictures'
    <<"a","v","i","a","t","i","o","n">>,   \* 'aviation'
    <<"a","i","r","c","r","a","f","t">>,   \* 'aircraft'
    <<"a","e","r","o","s","p","a","c","e">>,   \* 'aerospace'
    <<"v","o","l","a","r","i","s">>,   \* 'volaris'
    <<"e","a","s","y","j","e","t">>,   \* 'easyjet'
    <<"l","u","f","t","h","a","n","s","a">>,   \* 'lufthansa'
    <<"d","e","l","t","a">>,   \* 'delta'
    <<"a","m","e","r","i","c","a","n"," ","a","i","r","l","i","n","e","s">>,   \* 'american airlines'
    <<"b","r","i","t","i","s","h"," ","a","i","r","w","a","y","s">>,   \* 'british airways'
    <<"n","i","p","p","o","n">>,   \* 'nippon'
    <<"a","e","r","o","m","e","x","i","c","o">>,   \* 'aeromexico'
    <<"s","p","a","i","r","l","i","n","e","r","s">>,   \* 'spairliners'
    <<"u","n","i","v","e","r","s","a","l">>,   \* 'universal'
    <<"p","a","r","a","m","o","u","n","t">>,   \* 'paramount'
    <<"p","r","o","d","u","c","t","i","o","n","s">>,   \* 'productions'
    <<"c","o","u","r","i","e","r">>,   \* 'courier'
    <<"f","o","r","w","a","r","d","i","n","g">>,   \* 'forwarding'
    <<"t","m","r"," ","g","l","o","b","a","l">>,   \* 'tmr global'
    <<"a","e","r","o","p","l","e","x">>,   \* 'aeroplex'
    <<"n","o","v","a"," ","t","r","a","f","f","i","c">>,   \* 'nova traffic'
    <<"u","p","s">>,   \* 'ups'
    <<"e","n","d","e","a","v","o","r"," ","a","i","r">>,   \* 'endeavor air'
    <<"s","t","o","r","m"," ","a","v","i","a","t","i","o","n">>,   \* 'storm aviation'
    <<"a","d","v","e","n","t","u","r","e","s">>,   \* 'adventures'
    <<"h","a","r","t","f","o","r","d">>,   \* 'hartford'
    <<"t","o","k","y","o"," ","e","l","e","c","t","r","o","n">>,   \* 'tokyo electron'
    <<"s","l","i","p","s","t","i","c","k">>,   \* 'slipstick'
    <<"s","e","a","l","i","o","n"," ","p","r","o","d","u","c","t","i","o","n">>,   \* 'sealion production'
    <<"h","e","a","t","h","r","o","w"," ","c","o","u","r","i","e","r">>,   \* 'heathrow courier'
    <<"m","a","c","a","r","o","n","e","s","i","a">>,   \* 'macaronesia'
    <<"e","x","n","e","t"," ","s","e","r","v","i","c","e">>,   \* 'exnet service'
    <<"m","n","x"," ","g","l","o","b","a","l"," ","l","o","g","i","s","t","i","c","s">>,   \* 'mnx global logistics'
    <<"l","o","g","i","c","a","l"," ","f","r","e","i","g","h","t">>,   \* 'logical freight'
    <<"c","o","n","c","e","s","i","o","n","a","r","i","a">>,   \* 'concesionaria'
    <<"v","u","e","l","a"," ","c","o","m","p","a","n","i","a">>,   \* 'vuela compania'
    <<"p","a","n","a","s","o","n","i","c"," ","a","v","i","o","n","i","c","s">>   \* 'panasonic avionics'
  >>

\* part_000:56-61, the sheet-aware program
P1_HEALTHCARE_KEYWORDS == <<
    <<"p","h","a","r","m","a">>,   \* 'pharma'
    <<"m","e","d","i","c","a","l">>,   \* 'medical'
    <<"h","e","a","l","t","h">>,   \* 'health'
    <<"b","i","o">>,   \* 'bio'
    <<"c","l","i","n","i","c","a","l">>,   \* 'clinical'
    <<"h","o","s","p","i","t","a","l">>,   \* 'hospital'
    <<"d","i","a","g","n","o","s","t","i","c">>,   \* 'diagnostic'
    <<"t","h","e","r","a","p","e","u","t">>,   \* 'therapeut'
    <<"l","a","b","o","r","a","t","o","r">>,   \* 'laborator'
    <<"p","a","t","h","o","l","o","g">>,   \* 'patholog'
    <<"o","n","c","o","l","o","g">>,   \* 'oncolog'
    <<"g","e","n","e","t","i","c">>,   \* 'genetic'
    <<"g","e","n","o","m","i","c">>,   \* 'genomic'
    <<"m","o","l","e","c","u","l","a","r">>,   \* 'molecular'
    <<"v","a","c","c","i","n","e">>,   \* 'vaccine'
    <<"a","b","b","o","t","t">>,   \* 'abbott'
    <<"m","a","r","k","e","n">>,   \* 'marken'
    <<"f","i","s","h","e","r">>,   \* 'fisher'
    <<"p","a","t","h","e","o","n">>,   \* 'patheon'
    <<"q","i","a","g","e","n">>,   \* 'qiagen'
    <<"v","e","r","a","c","y","t","e">>,   \* 'veracyte'
    <<"d","e","l","p","h","a","r","m">>,   \* 'delpharm'
    <<"a","g","i","l","e","n","t">>,   \* 'agilent'
    <<"b","i","o","c","a","r","e">>,   \* 'biocare'
    <<"t","o","s","o","h">>,   \* 'tosoh'
    <<"b","i","o","l","o","g">>,   \* 'biolog'
    <<"l","i","f","e"," ","s","c","i","e","n","c","e">>,   \* 'life science'
    <<"l","i","f","e","s","c","i","e","n","c","e">>,   \* 'lifescience'
    <<"s","p","e","c","i","m","e","n">>,   \* 'specimen'
    <<"r","e","a","g","e","n","t">>,   \* 'reagent'
    <<"i","m","m","u","n","o">>,   \* 'immuno'
    <<"a","s","s","a","y">>,   \* 'assay'
    <<"c","u","r","i","u","m">>,   \* 'curium'
    <<"m","e","d","t","r","o","n","i","c">>   \* 'medtronic'
  >>

\* part_000:63-67, the sheet-aware program
P1_AVIATION_KEYWORDS == <<
    <<"a","i","r","l","i","n","e">>,   \* 'airline'
    <<"a","i","r","p","o","r","t">>,   \* 'airport'
    <<"a","v","i","a","t","i","o","n">>,   \* 'aviation'
    <<"a","i","r","c","r","a","f","t">>,   \* 'aircraft'
    <<"a","e","r","o","s","p","a","c","e">>,   \* 'aerospace'
    <<"c","a","r","g","o">>,   \* 'cargo'
    <<"f","r","e","i","g","h","t">>,   \* 'freight'
    <<"e","x","p","r","e","s","s">>,   \* 'express'
    <<"c","o","u","r","i","e","r">>,   \* 'courier'
    <<"l","u","f","t","h","a","n","s","a">>,   \* 'lufthansa'
    <<"d","e","l","t","a">>,   \* 'delta'
    <<"a","m","e","r","i","c","a","n"," ","a","i","r","l","i","n","e","s">>,   \* 'american airlines'
    <<"b","r","i","t","i","s","h"," ","a","i","r","w","a","y","s">>,   \* 'british airways'
    <<"k","l","m">>,   \* 'klm'
    <<"a","i","r"," ","f","r","a","n","c","e">>,   \* 'air france'
    <<"i","b","e","r","i","a">>,   \* 'iberia'
    <<"e","a","s","y","j","e","t">>,   \* 'easyjet'
    <<"e","n","d"," ","e","a","v","o","r"," ","a","i","r">>,   \* 'end eavor air'
    <<"s","t","o","r","m"," ","a","v","i","a","t","i","o","n">>,   \* 'storm aviation'
    <<"h","e","a","t","h","r","o","w">>,   \* 'heathrow'
    <<"s","p","a","i","r","l","i","n","e","r","s">>,   \* 'spairliners'
    <<"m","n","x">>,   \* 'mnx'
    <<"t","o","k","y","o"," ","e","l","e","c","t","r","o","n">>   \* 'tokyo electron'
  >>

-----------------------------------------------------------------------------
(* Inputs: the cells the workbooks of the model are made of *)

MarkenLtd == StrCell(<<"M","a","r","k","e","n"," ","L","t","d">>)   \* 'Marken Ltd'

MarkenPadded == StrCell(<<" ","M","a","r","k","e","n"," ","L","t","d"," ">>)   \* ' Marken Ltd '

MarkenLower == StrCell(<<"m","a","r","k","e","n"," ","l","t","d">>)   \* 'marken ltd'

LufthansaCargo == StrCell(<<"L","u","f","t","h","a","n","s","a"," ","C","a","r","g","o">>)   \* 'Lufthansa Cargo'

DeltaMedical == StrCell(<<"D","e","l","t","a"," ","M","e","d","i","c","a","l">>)   \* 'Delta Medical'

BioCargoExpress == StrCell(<<"B","i","o","C","a","r","g","o"," ","E","x","p","r","e","s","s">>)   \* 'BioCargo Express'

SanofiPharma == StrCell(<<"S","a","n","o","f","i"," ","P","h","a","r","m","a">>)   \* 'Sanofi Pharma'

AcmeBV == StrCell(<<"A","c","m","e"," ","B","V">>)   \* 'Acme BV'

EmptyName == StrCell(<<>>)   \* ''

AMS_ == StrCell(<<"A","M","S">>)   \* 'AMS'

JFK == StrCell(<<"J","F","K">>)   \* 'JFK'

CustomsHold == StrCell(<<"C","u","s","t","o","m","s"," ","H","o","l","d">>)   \* 'Customs Hold'

LatePickup == StrCell(<<"L","a","t","e"," ","p","i","c","k","u","p">>)   \* 'Late pickup'

NotADate == StrCell(<<"n","/","a">>)   \* 'n/a'

\* the day 2023-10-01 as the serial number 45200, a number and a text of digits
SerialNumber == NumCell(45200)

SerialText == StrCell(<<"4","5","2","0","0">>)   \* '45200'

\* a PIECES or TOTAL CHARGES cell that is no number
Tbd == StrCell(<<"t","b","d">>)   \* 'tbd'

IsoText == StrCell(<<"2","0","2","4","-","0","9","-","0","5">>)   \* '2024-09-05'

\* the account cells that are on the allow-list
RPCells == {StrCell(RP_ACCOUNTS[i]) : i \in 1..Len(RP_ACCOUNTS)}

\* the account cells of the workbooks of SpecSeg
SegAccounts == {MarkenLtd, MarkenPadded, LufthansaCargo, DeltaMedical, SanofiPharma, NaN}

\* the account cells of the workbooks of SpecNames
NameAccounts == RPCells \cup {MarkenPadded, MarkenLower, LufthansaCargo, DeltaMedical,
                              BioCargoExpress, SanofiPharma, AcmeBV, EmptyName,
                              NaN, NumCell(7), NumCell(0)}

\* the QC cells of the workbooks of SpecOtp
QcCells == {NaN, CustomsHold, LatePickup}

\* QC annotations that meet or miss the patterns of app1.py:204-217
QcEmpty == StrCell(<< >>)   \* ''

QcAgent == StrCell(<<"a","g","e","n","t">>)   \* 'agent'

QcAgents == StrCell(<<"A","G","E","N","T","S">>)   \* 'AGENTS'

QcSubagent == StrCell(<<"S","U","B","A","G","E","N","T">>)   \* 'SUBAGENT'

QcAgentX == StrCell(<<"a","g","e","n","t","_","x">>)   \* 'agent_x'

QcDelAgt == StrCell(<<"D","E","L"," ","A","G","T">>)   \* 'DEL AGT'

QcDelAgtJoined == StrCell(<<"D","E","L","A","G","T">>)   \* 'DELAGT'

QcDelAgtWide == StrCell(<<"D","e","l"," "," ","A","g","t">>)   \* 'Del  Agt'

QcDeliveryAgent == StrCell(<<"D","e","l","i","v","e","r","y"," ","A","g","e","n","t">>)   \* 'Delivery Agent'

QcWarehouse == StrCell(<<"W","A","R","E","H","O","U","S","E">>)   \* 'WAREHOUSE'

QcWHouse == StrCell(<<"w","/","h","o","u","s","e">>)   \* 'w/house'

QcWh == StrCell(<<"W","H">>)   \* 'WH'

QcWhDelay == StrCell(<<"W","H","-","D","E","L","A","Y">>)   \* 'WH-DELAY'

QcWhen == StrCell(<<"W","H","E","N">>)   \* 'WHEN'

QcClearance == StrCell(<<"c","l","e","a","r","a","n","c","e">>)   \* 'clearance'

QcRegulatory == StrCell(<<"R","E","G","U","L","A","T","O","R","Y">>)   \* 'REGULATORY'

QcGovernment == StrCell(<<"G","o","v","e","r","n","m","e","n","t">>)   \* 'Government'

QcWeather == StrCell(<<"B","a","d"," ","w","e","a","t","h","e","r">>)   \* 'Bad weather'

QcForceMajeure == StrCell(<<"F","O","R","C","E"," ","M","A","J","E","U","R","E">>)   \* 'FORCE MAJEURE'

QcForceMajeureJoined == StrCell(<<"F","O","R","C","E","M","A","J","E","U","R","E">>)   \* 'FORCEMAJEURE'

QcNotHome == StrCell(<<"N","O","T"," ","H","O","M","E">>)   \* 'NOT HOME'

QcSamples == {NaN, CustomsHold, LatePickup,
              QcEmpty, QcAgent, QcAgents, QcSubagent,
              QcAgentX, QcDelAgt, QcDelAgtJoined, QcDelAgtWide,
              QcDeliveryAgent, QcWarehouse, QcWHouse, QcWh,
              QcWhDelay, QcWhen, QcClearance, QcRegulatory,
              QcGovernment, QcWeather, QcForceMajeure, QcForceMajeureJoined,
              QcNotHome}

\* every text a script hands to a keyword loop: str(name), and the name stripped
AcctTexts == {PyStr(c) : c \in SegAccounts \cup NameAccounts}
                 \cup {Strip(PyStr(c)) : c \in SegAccounts \cup NameAccounts}

\* every text a script hands to a QC regular expression
QcTexts == {PyStr(c) : c \in QcCells \cup QcSamples}
             \cup {Upper(PyStr(c)) : c \in QcCells \cup QcSamples}

-----------------------------------------------------------------------------
(* Account classifier *)

\* The keyword loops, "for keyword in KEYWORDS: if keyword in account_lower",
\* computed once for each text of the model (app1.py:130-137 and 153-160,
\* part_000:469-476 and 487-494; part_000:87-88 for P1).
healthcare_keyword_in == [t \in AcctTexts |-> AnyKeyword(Lower(t), HEALTHCARE_KEYWORDS)]

aviation_keyword_in == [t \in AcctTexts |-> AnyKeyword(Lower(t), AVIATION_KEYWORDS)]

P1_healthcare_keyword_in == [t \in AcctTexts |-> AnyKeyword(Lower(t), P1_HEALTHCARE_KEYWORDS)]

P1_aviation_keyword_in == [t \in AcctTexts |-> AnyKeyword(Lower(t), P1_AVIATION_KEYWORDS)]

\* app1: is_rp_account (P2 has no such function)
is_rp_account(account_name) ==
    /\ Truthy(account_name)
    /\ InList(RP_ACCOUNTS, PyStr(account_name))

\* is_healthcare as P2 has it, with no look at the allow-list
is_healthcare_keywords_only(account_name) ==
    /\ Truthy(account_name)
    /\ ~aviation_keyword_in[PyStr(account_name)]
    /\ healthcare_keyword_in[PyStr(account_name)]

\* app1: is_healthcare
is_healthcare(account_name) ==
    /\ Truthy(account_name)
    /\ ~is_rp_account(account_name)
    /\ ~aviation_keyword_in[PyStr(account_name)]
    /\ healthcare_keyword_in[PyStr(account_name)]

\* is_aviation with the Aviation keywords winning the tie: no exclusion of
\* names that carry a healthcare keyword
is_aviation_wins(account_name) ==
    /\ Truthy(account_name)
    /\ ~is_rp_account(account_name)
    /\ aviation_keyword_in[PyStr(account_name)]

\* app1: is_aviation
is_aviation(account_name) ==
    /\ Truthy(account_name)
    /\ ~is_rp_account(account_name)
    /\ ~healthcare_keyword_in[PyStr(account_name)]
    /\ aviation_keyword_in[PyStr(account_name)]

\* P2: is_healthcare, without the allow-list check
P2_is_healthcare(account_name) ==
    /\ Truthy(account_name)
    /\ ~aviation_keyword_in[PyStr(account_name)]
    /\ healthcare_keyword_in[PyStr(account_name)]

\* P2: is_aviation, without the allow-list check
P2_is_aviation(account_name) ==
    /\ Truthy(account_name)
    /\ ~healthcare_keyword_in[PyStr(account_name)]
    /\ aviation_keyword_in[PyStr(account_name)]

\* P1: _contains_any; text is a cell, so that the isinstance test is modelled,
\* and keyword_in is the loop over the keywords
contains_any(text, keyword_in) ==
    /\ text.kind = "str"
    /\ keyword_in[text.text]

\* P1: is_healthcare(account_name, sheet_name)
P1_is_healthcare(account_name, sheet_name) ==
    IF sheet_name = "Aviation SVC" THEN FALSE
    ELSE contains_any(StrCell(PyStr(account_name)), P1_healthcare_keyword_in)

\* P1: is_aviation(account_name, sheet_name)
P1_is_aviation(account_name, sheet_name) ==
    IF sheet_name = "Aviation SVC" THEN TRUE
    ELSE contains_any(StrCell(PyStr(account_name)), P1_aviation_keyword_in)

\* Series.isin(RP_ACCOUNTS) on one cell: equality of the value, no conversion
isin_RP(c) == c.kind = "str" /\ InList(RP_ACCOUNTS, c.text)

-----------------------------------------------------------------------------
(* Date normalizer *)

\* A point in time: nat (pandas NaT), or day (days from 1899-12-30) and ns
\* (nanoseconds into that day).
NaT == [nat |-> TRUE, day |-> 0, ns |-> 0]
Ts(d) == [nat |-> FALSE, day |-> d, ns |-> 0]

\* a date cell that Excel holds as a date (read_excel yields a Timestamp)
TsCell(d) == [kind |-> "ts", text |-> << >>, num |-> d]

IsDigit(c) == \E j \in 1..10 : DIGITS[j] = c
DigitVal(c) == (CHOOSE j \in 1..10 : DIGITS[j] = c) - 1

RECURSIVE DecVal(_)
\* int(text) of a string of digits
DecVal(t) == IF Len(t) = 0 THEN 0
             ELSE 10 * DecVal(SubSeq(t, 1, Len(t) - 1)) + DigitVal(t[Len(t)])

IsLeap(y) == (y % 4 = 0 /\ y % 100 # 0) \/ y % 400 = 0

DaysInMonth(y, m) ==
    IF m = 2 THEN (IF IsLeap(y) THEN 29 ELSE 28)
    ELSE IF m \in {4, 6, 9, 11} THEN 30 ELSE 31

\* the day count of a calendar date, from 1899-12-30 (day 0), years 1900..9999
SerialOfDate(y, m, d) ==
    LET yy  == IF m <= 2 THEN y - 1 ELSE y
        era == yy \div 400
        yoe == yy - era * 400
        mp  == IF m > 2 THEN m - 3 ELSE m + 9
        doy == (153 * mp + 2) \div 5 + d - 1
        doe == yoe * 365 + yoe \div 4 - yoe \div 100 + doy
    IN  era * 146097 + doe - 719468 + 25569

\* pd.to_datetime of one text cell.  The calendar texts of this model are the
\* ISO dates 'YYYY-MM-DD'; every other text is unparseable (NaT under
\* errors="coerce").
ParseCalendarText(t) ==
    IF /\ Len(t) = 10
       /\ t[5] = "-" /\ t[8] = "-"
       /\ \A i \in {1, 2, 3, 4, 6, 7, 9, 10} : IsDigit(t[i])
    THEN LET y == DecVal(SubSeq(t, 1, 4))
             m == DecVal(SubSeq(t, 6, 7))
             d == DecVal(SubSeq(t, 9, 10))
         IN  IF y >= 1900 /\ m \in 1..12 /\ d \in 1..DaysInMonth(y, m)
             THEN Ts(SerialOfDate(y, m, d))
             ELSE NaT
    ELSE NaT

\* pd.to_datetime(s, errors="coerce") at one position of an object column: a
\* Timestamp is kept, a number is read as nanoseconds from 1970-01-01 (day
\* 25569), a text is parsed, an empty cell is NaT
to_datetime(c) ==
    CASE c.kind = "ts"  -> Ts(c.num)
      [] c.kind = "num" -> [nat |-> FALSE, day |-> 25569, ns |-> c.num]
      [] c.kind = "str" -> ParseCalendarText(c.text)
      [] OTHER          -> NaT

\* pd.to_numeric(s, errors="coerce") at one position of an object column:
\* [nan, v]; the numeric texts of this model are the strings of digits
to_numeric(c) ==
    CASE c.kind = "num" -> [nan |-> FALSE, v |-> c.num]
      [] c.kind = "str" /\ Len(c.text) > 0 /\ (\A i \in 1..Len(c.text) : IsDigit(c.text[i]))
                        -> [nan |-> FALSE, v |-> DecVal(c.text)]
      [] OTHER          -> [nan |-> TRUE, v |-> 0]

\* the number of positions of a boolean series that are TRUE (Series.sum())
CountTrue(mask) == Cardinality({i \in 1..Len(mask) : mask[i]})

\* the serial numbers tried as soon as half of the column failed to parse
excel_to_dt_half(s) ==
    LET out  == [i \in 1..Len(s) |-> to_datetime(s[i])]
        isna == [i \in 1..Len(s) |-> out[i].nat]
    IN  IF Len(s) > 0 /\ 2 * CountTrue(isna) >= Len(s)
        THEN [i \in 1..Len(s) |->
                IF ~out[i].nat THEN out[i]
                ELSE IF to_numeric(s[i]).nan THEN NaT ELSE Ts(to_numeric(s[i]).v)]
        ELSE out

\* _excel_to_dt (app1.py:95-102; the same function at part_000:72-79, 446-453).
\* The series is an object column, as read_excel yields for a column that
\* mixes dates with other cells; on a datetime64 column (dates and empty
\* cells only) the function is the same while at most half of it is empty,
\* and the serial-number branch on such a column is not modelled.
excel_to_dt(s) ==
    LET out  == [i \in 1..Len(s) |-> to_datetime(s[i])]
        isna == [i \in 1..Len(s) |-> out[i].nat]
    IN  IF Len(s) > 0 /\ 2 * CountTrue(isna) > Len(s)
        THEN LET num  == [i \in 1..Len(s) |-> to_numeric(s[i])]
                 out2 == [i \in 1..Len(s) |->
                            IF num[i].nan THEN NaT ELSE Ts(num[i].v)]
             IN  [i \in 1..Len(s) |-> IF ~out[i].nat THEN out[i] ELSE out2[i]]
        ELSE out

\* pod <= target on two points in time; a comparison with NaT is False
TsLeq(a, b) ==
    /\ ~a.nat /\ ~b.nat
    /\ \/ a.day < b.day
       \/ a.day = b.day /\ a.ns <= b.ns

-----------------------------------------------------------------------------
(* QC annotations *)

\* \w of the regular expressions
IsWordChar(c) ==
    \/ \E j \in 1..26 : UPPER[j] = c \/ LOWER[j] = c
    \/ IsDigit(c)
    \/ c = "_"

\* \b before position i of s (i = Len(s) + 1: at the end)
WordBoundary(s, i) ==
    LET before == i >= 2 /\ i - 1 <= Len(s) /\ IsWordChar(s[i - 1])
        after  == i >= 1 /\ i <= Len(s) /\ IsWordChar(s[i])
    IN  before # after

RECURSIVE PartsEnd(_, _, _, _)
\* The positions where a match of parts[k] \s* parts[k+1] \s* ... that starts
\* at position i of s can end (the position after its last character).
PartsEnd(s, parts, k, i) ==
    IF ~MatchAt(s, parts[k], i) THEN {}
    ELSE LET e == i + Len(parts[k])
         IN  IF k = Len(parts) THEN {e}
             ELSE UNION { PartsEnd(s, parts, k + 1, j) :
                            j \in { j \in e..(Len(s) + 1) :
                                      \A x \in e..(j - 1) : IsSpace(s[x]) } }

\* re.search of \b parts[1] \s* parts[2] ... \b in s
SearchPattern(s, parts) ==
    \E i \in 1..Len(s) :
        /\ WordBoundary(s, i)
        /\ \E e \in PartsEnd(s, parts, 1, i) : WordBoundary(s, e)

\* app1.py:204-217, non_controllable_patterns; each pattern is \b, its parts
\* joined by \s*, \b
non_controllable_patterns == <<
    << <<"A","G","E","N","T">> >>,
    << <<"D","E","L">>, <<"A","G","T">> >>,
    << <<"D","E","L","I","V","E","R","Y">>, <<"A","G","E","N","T">> >>,
    << <<"C","U","S","T","O","M","S">> >>,
    << <<"W","A","R","E","H","O","U","S","E">> >>,
    << <<"W","/","H","O","U","S","E">> >>,
    << <<"W","H">> >>,
    << <<"C","L","E","A","R","A","N","C","E">> >>,
    << <<"R","E","G","U","L","A","T","O","R","Y">> >>,
    << <<"G","O","V","E","R","N","M","E","N","T">> >>,
    << <<"W","E","A","T","H","E","R">> >>,
    << <<"F","O","R","C","E">>, <<"M","A","J","E","U","R","E">> >>
  >>

\* ctrl_regex.search(x) with re.IGNORECASE (app1.py:220), computed once for
\* each text of the model
ctrl_regex_search == [x \in QcTexts |->
    \E p \in 1..Len(non_controllable_patterns) :
        SearchPattern(Upper(x), non_controllable_patterns[p])]

\* the single-word patterns met anywhere in the text, word boundaries ignored
non_controllable_cell_substring(c) ==
    LET x == IF c.kind = "nan" THEN << >> ELSE Upper(PyStr(c))
    IN  /\ x # << >>
        /\ \/ ctrl_regex_search[x]
           \/ \E p \in 1..Len(non_controllable_patterns) :
                 /\ Len(non_controllable_patterns[p]) = 1
                 /\ Contains(x, non_controllable_patterns[p][1])

\* app1.py:200 and 223 on one QC cell: fillna(''), astype(str), upper, and
\* "bool(ctrl_regex.search(x)) if x else False"
non_controllable_cell(c) ==
    LET x == IF c.kind = "nan" THEN << >> ELSE Upper(PyStr(c))
    IN  x # << >> /\ ctrl_regex_search[x]

-----------------------------------------------------------------------------
(* Sheets and frames *)

SHEETS == <<"AMS", "Americas International Desk", "Aviation SVC">>

SheetNames == {SHEETS[i] : i \in 1..Len(SHEETS)}

\* the columns the scripts read (spec section 6, and the fallback columns of
\* filter_ams_rows)
COLUMNS == {"ACCT NM", "DEP", "ARR", "DEP STN", "ARR STN", "POD DATE/TIME",
            "UPD DEL", "QDT", "QC", "QC NAME", "PIECES", "TOTAL CHARGES"}

\* A row of a frame: src, the sheet and the position it was read from; cells,
\* by column; extra, the columns a script adds to it.
BlankCells == [c \in COLUMNS |-> NaN]

\* pd.DataFrame()
EmptyFrame == [cols |-> {}, rows |-> << >>]

\* DataFrame.empty
empty(df) == df.cols = {} \/ Len(df.rows) = 0

\* df[name] as a sequence of cells
Column(df, name) == [i \in 1..Len(df.rows) |-> df.rows[i].cells[name]]

\* df[mask]
RECURSIVE SelectRows(_, _)
SelectRows(rows, mask) ==
    IF Len(rows) = 0 THEN << >>
    ELSE LET rest == SelectRows(Tail(rows), Tail(mask))
         IN  IF Head(mask) THEN <<Head(rows)>> \o rest ELSE rest

Filter(df, mask) == [df EXCEPT !.rows = SelectRows(df.rows, mask)]

\* pd.read_excel(file, sheet_name=s) of a sheet [present, cols, rows]: a cell
\* under a column the sheet does not have is NaN
read_excel(book, s) ==
    [cols |-> book[s].cols,
     rows |-> [i \in 1..Len(book[s].rows) |->
                 [src   |-> <<s, i>>,
                  cells |-> [c \in COLUMNS |->
                               IF c \in book[s].cols THEN book[s].rows[i][c]
                               ELSE NaN],
                  extra |-> << >>]]]

RECURSIVE concat(_)
\* pd.concat(frames, ignore_index=True)
concat(frames) ==
    IF Len(frames) = 0 THEN EmptyFrame
    ELSE LET rest == concat(Tail(frames))
         IN  [cols |-> Head(frames).cols \cup rest.cols,
              rows |-> Head(frames).rows \o rest.rows]

RECURSIVE SumSeq(_)
SumSeq(s) == IF Len(s) = 0 THEN 0 ELSE Head(s) + SumSeq(Tail(s))

RECURSIVE ConcatTexts(_)
\* the texts of a column of text cells, joined
ConcatTexts(col) == IF Len(col) = 0 THEN << >> ELSE Head(col).text \o ConcatTexts(Tail(col))

\* df[name].sum() raises TypeError: the column holds a text next to a number
\* or an empty cell (an empty cell counts as 0 in the sum)
sum_raises(df, name) ==
    /\ \E i \in 1..Len(df.rows) : df.rows[i].cells[name].kind = "str"
    /\ \E i \in 1..Len(df.rows) : df.rows[i].cells[name].kind # "str"

\* df[name].sum() where it does not raise, as a cell: the sum of the numbers
\* of a column of numbers and empty cells (NaN is skipped), the joined texts
\* of a column of texts
col_sum(df, name) ==
    IF \E i \in 1..Len(df.rows) : df.rows[i].cells[name].kind = "str"
    THEN StrCell(ConcatTexts(Column(df, name)))
    ELSE NumCell(SumSeq([i \in 1..Len(df.rows) |->
                           IF df.rows[i].cells[name].kind = "num"
                           THEN df.rows[i].cells[name].num ELSE 0]))

\* Series.astype(str).str.contains('AMS', case=False, na=False) on one cell
contains_AMS(c) == Contains(Upper(PyStr(c)), <<"A","M","S">>)

\* app1: filter_by_ams
filter_by_ams(df) ==
    IF empty(df) THEN df
    ELSE IF "DEP" \in df.cols /\ "ARR" \in df.cols
    THEN Filter(df, [i \in 1..Len(df.rows) |->
                       \/ contains_AMS(df.rows[i].cells["DEP"])
                       \/ contains_AMS(df.rows[i].cells["ARR"])])
    ELSE df

-----------------------------------------------------------------------------
(* OTP calculator, app1 *)

\* the ratio as a per-mille figure: n / d * 1000 to two decimals, in hundredths
Round2_per_mille(n, d) ==
    LET q == (100000 * n) \div d
        r == (100000 * n) % d
    IN  IF 2 * r > d \/ (2 * r = d /\ q % 2 = 1) THEN q + 1 ELSE q

\* round(100 * n / d, 2) in hundredths: the nearest integer to 10000 n / d,
\* an exact tie going to the even one
Round2(n, d) ==
    LET q == (10000 * n) \div d
        r == (10000 * n) % d
    IN  IF 2 * r > d \/ (2 * r = d /\ q % 2 = 1) THEN q + 1 ELSE q

\* app1: _get_target_series; "none" stands for None
get_target_series(df) ==
    IF "UPD DEL" \in df.cols /\ (\E i \in 1..Len(df.rows) : NotNa(df.rows[i].cells["UPD DEL"]))
    THEN "UPD DEL"
    ELSE IF "QDT" \in df.cols THEN "QDT" ELSE "none"

NoDebug == [written |-> FALSE, total_shipments |-> 0, valid_shipments |-> 0,
            controllable_shipments |-> 0, non_controllable_shipments |-> 0,
            gross_ontime |-> 0, net_ontime |-> 0]

\* on-time taken strictly: a tie is late
ontime_strict(pod_dt, target_dt, valid_mask) ==
    [i \in 1..Len(pod_dt) |->
        TsLeq(pod_dt[i], target_dt[i]) /\ pod_dt[i] # target_dt[i] /\ valid_mask[i]]

\* the mask of on-time rows, app1.py:191
ontime(pod_dt, target_dt, valid_mask) ==
    [i \in 1..Len(pod_dt) |-> TsLeq(pod_dt[i], target_dt[i]) /\ valid_mask[i]]

\* the controllable rows without the look at the dates
controllable_any(valid_mask, non_controllable) ==
    [i \in 1..Len(valid_mask) |-> ~non_controllable[i]]

\* app1.py:226: controllable_mask = valid_mask & ~non_controllable
controllable(valid_mask, non_controllable) ==
    [i \in 1..Len(valid_mask) |-> valid_mask[i] /\ ~non_controllable[i]]

\* Net OTP clamped: never below Gross OTP (as P1's kpis_for_september does)
net_of_clamped(controllable_ontime, controllable_count, gross_otp) ==
    IF controllable_count > 0
    THEN IF Round2(controllable_ontime, controllable_count) < gross_otp
         THEN gross_otp ELSE Round2(controllable_ontime, controllable_count)
    ELSE 0

\* Net OTP falling back to Gross OTP (as P2's calculate_otp does)
net_of_fallback(controllable_ontime, controllable_count, gross_otp) ==
    IF controllable_count > 0
    THEN Round2(controllable_ontime, controllable_count) ELSE gross_otp

\* app1.py:229-233: Net OTP from the two counts
net_of(controllable_ontime, controllable_count, gross_otp) ==
    IF controllable_count > 0 THEN Round2(controllable_ontime, controllable_count) ELSE 0

\* app1: calculate_otp.  [gross, net] are the returned pair; debug is what
\* the call writes to st.session_state.otp_debug['last_calculation']
\* (written = FALSE: the call leaves the session state alone).
calculate_otp(df) ==
    LET zero == [gross |-> 0, net |-> 0, debug |-> NoDebug]
        target_col == get_target_series(df)
    IN
    IF empty(df) THEN zero
    ELSE IF target_col = "none" \/ "POD DATE/TIME" \notin df.cols THEN zero
    ELSE
    LET n           == Len(df.rows)
        target_dt   == excel_to_dt(Column(df, target_col))
        pod_dt      == excel_to_dt(Column(df, "POD DATE/TIME"))
        valid_mask  == [i \in 1..n |-> ~target_dt[i].nat /\ ~pod_dt[i].nat]
        ontime_mask == ontime(pod_dt, target_dt, valid_mask)
        gross_otp   == IF CountTrue(valid_mask) > 0
                       THEN Round2(CountTrue(ontime_mask), CountTrue(valid_mask))
                       ELSE 0
    IN
    IF CountTrue(valid_mask) = 0 THEN zero
    ELSE IF "QC" \in df.cols
    THEN LET non_controllable  == [i \in 1..n |-> non_controllable_cell(df.rows[i].cells["QC"])]
             controllable_mask == controllable(valid_mask, non_controllable)
             controllable_ontime == [i \in 1..n |-> ontime_mask[i] /\ controllable_mask[i]]
         IN  [gross |-> gross_otp,
              net   |-> net_of(CountTrue(controllable_ontime),
                               CountTrue(controllable_mask), gross_otp),
              debug |-> [written |-> TRUE,
                         total_shipments |-> n,
                         valid_shipments |-> CountTrue(valid_mask),
                         controllable_shipments |-> CountTrue(controllable_mask),
                         non_controllable_shipments |-> CountTrue(non_controllable),
                         gross_ontime |-> CountTrue(ontime_mask),
                         net_ontime |-> CountTrue(controllable_ontime)]]
    ELSE [gross |-> gross_otp, net |-> gross_otp, debug |-> NoDebug]

-----------------------------------------------------------------------------
(* P2, the earlier script: office filter and OTP calculator *)

\* P2: filter_by_ams; a frame with neither DEP nor ARR keeps no row
P2_filter_by_ams(df) ==
    IF empty(df) THEN df
    ELSE Filter(df, [i \in 1..Len(df.rows) |->
                       \/ "DEP" \in df.cols /\ contains_AMS(df.rows[i].cells["DEP"])
                       \/ "ARR" \in df.cols /\ contains_AMS(df.rows[i].cells["ARR"])])

\* part_000:69 and :534, the alternatives of \b(...)\b
CTRL_REGEX == <<
    << <<"A","G","E","N","T">> >>,
    << <<"D","E","L">>, <<"A","G","T">> >>,
    << <<"D","E","L","I","V","E","R","Y">>, <<"A","G","E","N","T">> >>,
    << <<"C","U","S","T","O","M","S">> >>,
    << <<"W","A","R","E","H","O","U","S","E">> >>,
    << <<"W","/","H","O","U","S","E">> >>
  >>

\* CTRL_REGEX.search(x), re.I, computed once for each text of the model
CTRL_REGEX_search == [x \in QcTexts |->
    \E p \in 1..Len(CTRL_REGEX) : SearchPattern(Upper(x), CTRL_REGEX[p])]

RECURSIVE Gcd(_, _)
Gcd(a, b) == IF b = 0 THEN a ELSE Gcd(b, a % b)

\* the float 100 * n / d of P1 and P2, which is not rounded: the fraction in
\* lowest terms, <<0, 1>> for 0.0
Pct(n, d) == IF n = 0 THEN <<0, 1>> ELSE <<n \div Gcd(n, d), d \div Gcd(n, d)>>

\* P2: calculate_otp, [gross, net] as fractions
P2_calculate_otp(df) ==
    LET zero == [gross |-> Pct(0, 1), net |-> Pct(0, 1)]
        target_col == get_target_series(df)
    IN
    IF empty(df) THEN zero
    ELSE IF target_col = "none" \/ "POD DATE/TIME" \notin df.cols THEN zero
    ELSE
    LET n           == Len(df.rows)
        target_dt   == excel_to_dt(Column(df, target_col))
        pod_dt      == excel_to_dt(Column(df, "POD DATE/TIME"))
        valid_mask  == [i \in 1..n |-> ~target_dt[i].nat /\ ~pod_dt[i].nat]
        ontime_mask == [i \in 1..n |-> TsLeq(pod_dt[i], target_dt[i]) /\ valid_mask[i]]
        gross_otp   == Pct(CountTrue(ontime_mask), CountTrue(valid_mask))
    IN
    IF CountTrue(valid_mask) = 0 THEN zero
    ELSE IF "QC" \in df.cols
    THEN LET non_controllable  == [i \in 1..n |->
                                     CTRL_REGEX_search[Upper(PyStr(df.rows[i].cells["QC"]))]]
             controllable_mask == [i \in 1..n |-> valid_mask[i] /\ ~non_controllable[i]]
             net_ontime        == [i \in 1..n |->
                                     TsLeq(pod_dt[i], target_dt[i]) /\ controllable_mask[i]]
         IN  [gross |-> gross_otp,
              net   |-> IF CountTrue(controllable_mask) > 0
                        THEN Pct(CountTrue(net_ontime), CountTrue(controllable_mask))
                        ELSE gross_otp]
    ELSE [gross |-> gross_otp, net |-> gross_otp]

-----------------------------------------------------------------------------
(* P1, the sheet-aware script: office filter and OTP columns *)

\* Series.astype(str).str.upper().str.strip().eq("AMS") on one cell
equals_AMS(c) == Strip(Upper(PyStr(c))) = <<"A","M","S">>

\* P1: filter_ams_rows (the column names of this model are upper case)
filter_ams_rows(df) ==
    LET dep == IF "DEP" \in df.cols THEN "DEP"
               ELSE IF "DEP STN" \in df.cols THEN "DEP STN" ELSE "none"
        arr == IF "ARR" \in df.cols THEN "ARR"
               ELSE IF "ARR STN" \in df.cols THEN "ARR STN" ELSE "none"
    IN  IF dep = "none" /\ arr = "none" THEN df
        ELSE Filter(df, [i \in 1..Len(df.rows) |->
                           \/ dep # "none" /\ equals_AMS(df.rows[i].cells[dep])
                           \/ arr # "none" /\ equals_AMS(df.rows[i].cells[arr])])

\* P1: _coerce_num on one cell: to_numeric(errors="coerce").fillna(0)
coerce_num(c) == IF to_numeric(c).nan THEN NumCell(0) ELSE NumCell(to_numeric(c).v)

\* a row is on time net only when it is late without a controllable cause
on_time_net_late(On_Time_Gross, Late, Is_Controllable) ==
    Late /\ ~Is_Controllable

\* part_000:131, d["On_Time_Net"] of one row
on_time_net(On_Time_Gross, Late, Is_Controllable) ==
    On_Time_Gross \/ (Late /\ ~Is_Controllable)

\* P1: add_otp_columns.  The derived columns of a row are kept in row.extra.
add_otp_columns(df) ==
    LET n          == Len(df.rows)
        pod        == IF "POD DATE/TIME" \in df.cols
                      THEN excel_to_dt(Column(df, "POD DATE/TIME"))
                      ELSE [i \in 1..n |-> NaT]
        target_col == IF "UPD DEL" \in df.cols THEN "UPD DEL"
                      ELSE IF "QDT" \in df.cols THEN "QDT" ELSE "none"
        target     == IF target_col # "none"
                      THEN excel_to_dt(Column(df, target_col))
                      ELSE [i \in 1..n |-> NaT]
        Is_Controllable == [i \in 1..n |->
                              /\ "QC NAME" \in df.cols
                              /\ CTRL_REGEX_search[PyStr(df.rows[i].cells["QC NAME"])]]
        ok            == [i \in 1..n |-> ~pod[i].nat /\ ~target[i].nat]
        On_Time_Gross == [i \in 1..n |-> ok[i] /\ TsLeq(pod[i], target[i])]
        Late          == [i \in 1..n |-> ~On_Time_Gross[i]]
        On_Time_Net   == [i \in 1..n |->
                            on_time_net(On_Time_Gross[i], Late[i], Is_Controllable[i])]
    IN  [cols |-> df.cols \cup {"_pod", "_target", "Is_Controllable", "PIECES",
                                "On_Time_Gross", "Late", "On_Time_Net"}
                    \cup (IF "QC NAME" \in df.cols THEN {"QC_NAME_CLEAN"} ELSE {}),
         rows |-> [i \in 1..n |->
                     [src   |-> df.rows[i].src,
                      cells |-> [df.rows[i].cells EXCEPT
                                   !["PIECES"] = IF "PIECES" \in df.cols
                                                 THEN coerce_num(@) ELSE NumCell(0)],
                      extra |-> [pod |-> pod[i], target |-> target[i],
                                 Is_Controllable |-> Is_Controllable[i],
                                 On_Time_Gross |-> On_Time_Gross[i],
                                 Late |-> Late[i],
                                 On_Time_Net |-> On_Time_Net[i]]]]]

-----------------------------------------------------------------------------
(* P1: the KPIs of one September *)

\* the calendar year and month of a serial day (Series.dt.year, .dt.month)
CivilOf(day) ==
    LET z   == day - 25569 + 719468
        era == z \div 146097
        doe == z - era * 146097
        yoe == (doe - doe \div 1460 + doe \div 36524 - doe \div 146096) \div 365
        doy == doe - (365 * yoe + yoe \div 4 - yoe \div 100)
        mp  == (5 * doy + 2) \div 153
        m   == IF mp < 10 THEN mp + 3 ELSE mp - 9
    IN  [year |-> yoe + era * 400 + (IF m <= 2 THEN 1 ELSE 0), month |-> m]

YearOf(t) == CivilOf(t.day).year
MonthOf(t) == CivilOf(t.day).month

\* a mean that has no value (np.nan)
PctNaN == <<0, 0>>

\* P1: pick_september_years, as the set of the years
pick_september_years(df) ==
    IF "_pod" \notin df.cols THEN {}
    ELSE {YearOf(df.rows[i].extra.pod) :
            i \in {j \in 1..Len(df.rows) :
                     ~df.rows[j].extra.pod.nat /\ MonthOf(df.rows[j].extra.pod) = 9}}

\* the rows of September together with the rows that have no POD
september_rows_all(df, year) ==
    SelectRows(df.rows, [i \in 1..Len(df.rows) |->
                      \/ df.rows[i].extra.pod.nat
                      \/ /\ MonthOf(df.rows[i].extra.pod) = 9
                         /\ YearOf(df.rows[i].extra.pod) = year])

\* the rows kpis_for_september keeps as d, by position in df
september_rows(df, year) ==
    SelectRows(df.rows, [i \in 1..Len(df.rows) |->
                      /\ ~df.rows[i].extra.pod.nat
                      /\ MonthOf(df.rows[i].extra.pod) = 9
                      /\ YearOf(df.rows[i].extra.pod) = year])

\* P1: kpis_for_september, called with a year
kpis_for_september(df, year) ==
    IF empty(df) \/ "_pod" \notin df.cols
    THEN [volume |-> 0, pieces |-> 0, gross |-> PctNaN, net |-> PctNaN]
    ELSE LET d     == september_rows(df, year)
             base  == SelectSeq(d, LAMBDA r : ~r.extra.target.nat)
             nb    == Len(base)
             ng    == Len(SelectSeq(base, LAMBDA r : r.extra.On_Time_Gross))
             nn    == Len(SelectSeq(base, LAMBDA r : r.extra.On_Time_Net))
         IN  [volume |-> Len(d),
              pieces |-> IF "PIECES" \in df.cols
                         THEN SumSeq([i \in 1..Len(d) |-> d[i].cells["PIECES"].num])
                         ELSE 0,
              gross  |-> IF nb = 0 THEN PctNaN ELSE Pct(ng, nb),
              net    |-> IF nb = 0 THEN PctNaN
                         ELSE IF nn < ng THEN Pct(ng, nb) ELSE Pct(nn, nb)]

\* the options of a tab's year box: its September years, or the current year
year_options(years, now) == IF years # {} THEN years ELSE {now}

\* sorted(...) of a set of years, as pick_september_years returns them
RECURSIVE sorted_years(_)
sorted_years(S) ==
    IF S = {} THEN <<>>
    ELSE LET m == CHOOSE x \in S : \A y \in S : x <= y
         IN  <<m>> \o sorted_years(S \ {m})

\* the year box preselects the first of its options
default_year_first(years, now) ==
    LET options == IF years # {} THEN sorted_years(years) ELSE <<now>>
    IN  options[1]

\* part_000:287: the option the year box preselects,
\* index=(len(rp_years)-1 if rp_years else 0), counted from 0
default_year(years, now) ==
    LET options == IF years # {} THEN sorted_years(years) ELSE <<now>>
        index   == IF years # {} THEN Len(sorted_years(years)) - 1 ELSE 0
    IN  options[index + 1]

-----------------------------------------------------------------------------
(* State *)

VARIABLES
    wb,            \* the uploaded workbook: sheet -> [present, cols, rows]
    readable,      \* the uploaded file can be read as a workbook
    pc,            \* "input", then the script's position: "rp", "lfs", "avs",
                   \* "tabs" (the segments are built), "done" (the tabs are
                   \* shown), "error" (the except block)
    prog,          \* the script that runs: "app1", "P1", "P2" ("none" before)
    rp_df,         \* the RadioPharma frame (rp in P1)
    lfs_df,        \* the LifeSciences frame (lfs in P1)
    avs_df,        \* the Aviation frame (avs in P1)
    lfs_combined,  \* app1, P2: the concatenated sheets with column is_healthcare
    avs_combined,  \* app1, P2: the concatenated sheets with column is_aviation
    rp_metrics,    \* rp_volume, rp_pieces, rp_revenue, rp_gross_otp, rp_net_otp
    lfs_metrics,   \* lfs_volume, ..., lfs_net_otp
    avs_metrics,   \* avs_volume, ..., avs_net_otp
    otp_debug      \* st.session_state.otp_debug['last_calculation']

vars == <<wb, readable, pc, prog, rp_df, lfs_df, avs_df, lfs_combined, avs_combined,
          rp_metrics, lfs_metrics, avs_metrics, otp_debug>>

results == <<rp_df, lfs_df, avs_df, lfs_combined, avs_combined,
             rp_metrics, lfs_metrics, avs_metrics, otp_debug>>

\* the metrics of a segment without data, its OTP left without a value (-1)
\* as kpis_for_september of P1 leaves it
NoMetrics_undefined == [volume |-> 0, pieces |-> NumCell(0), revenue |-> NumCell(0),
                        gross_otp |-> -1, net_otp |-> -1]

\* app1.py:396-401: the metrics of a segment that has no sheet
NoMetrics == [volume |-> 0, pieces |-> NumCell(0), revenue |-> NumCell(0),
              gross_otp |-> 0, net_otp |-> 0]

NoSheet == [present |-> FALSE, cols |-> {}, rows |-> << >>]

Init ==
    /\ wb = [s \in SheetNames |-> NoSheet]
    /\ readable = TRUE
    /\ pc = "input"
    /\ prog = "none"
    /\ rp_df = EmptyFrame
    /\ lfs_df = EmptyFrame
    /\ avs_df = EmptyFrame
    /\ lfs_combined = EmptyFrame
    /\ avs_combined = EmptyFrame
    /\ rp_metrics = NoMetrics
    /\ lfs_metrics = NoMetrics
    /\ avs_metrics = NoMetrics
    /\ otp_debug = NoDebug

\* the rows of the workbook
TotalRows == SumSeq([i \in 1..Len(SHEETS) |-> Len(wb[SHEETS[i]].rows)])

\* The user prepares the workbook: a sheet with its header row ...
AddSheet(s, cols) ==
    /\ pc = "input"
    /\ ~wb[s].present
    /\ wb' = [wb EXCEPT ![s] = [present |-> TRUE, cols |-> cols, rows |-> << >>]]
    /\ UNCHANGED <<readable, pc, prog, results>>

\* ... and a row of a sheet; cells gives the cells of the sheet's columns
AddRow(s, cells, max) ==
    /\ pc = "input"
    /\ wb[s].present
    /\ TotalRows < max
    /\ wb' = [wb EXCEPT ![s].rows = Append(@, [c \in COLUMNS |->
                                       IF c \in wb[s].cols THEN cells[c] ELSE NaN])]
    /\ UNCHANGED <<readable, pc, prog, results>>

\* The user uploads the workbook and script p runs from its top.
Upload(p) ==
    /\ pc = "input"
    /\ pc' = "rp"
    /\ prog' = p
    /\ UNCHANGED <<wb, readable, results>>

\* app1.py:372, 241-243: the user uploads another file and the script runs
\* again; its variables start afresh, st.session_state is kept
Rerun ==
    /\ pc \in {"done", "error"} /\ prog = "app1"
    /\ wb' = [s \in SheetNames |-> NoSheet]
    /\ readable' = TRUE
    /\ pc' = "input"
    /\ prog' = "none"
    /\ rp_df' = EmptyFrame
    /\ lfs_df' = EmptyFrame
    /\ avs_df' = EmptyFrame
    /\ lfs_combined' = EmptyFrame
    /\ avs_combined' = EmptyFrame
    /\ rp_metrics' = NoMetrics
    /\ lfs_metrics' = NoMetrics
    /\ avs_metrics' = NoMetrics
    /\ UNCHANGED otp_debug

\* The user uploads a file that is no workbook and script p runs from its top.
UploadUnreadable(p) ==
    /\ pc = "input"
    /\ readable' = FALSE
    /\ pc' = "rp"
    /\ prog' = p
    /\ UNCHANGED <<wb, results>>

-----------------------------------------------------------------------------
(* app1: the main block, app1.py:374-470 *)

\* the sheets of the list that the workbook has, filtered (app1.py:405-410)
RECURSIVE sheet_frames(_, _)
sheet_frames(book, sheets) ==
    IF Len(sheets) = 0 THEN << >>
    ELSE IF book[Head(sheets)].present
    THEN <<filter_by_ams(read_excel(book, Head(sheets)))>> \o sheet_frames(book, Tail(sheets))
    ELSE sheet_frames(book, Tail(sheets))

\* the sums of a segment raise (app1.py:392-393, 427-428, 461-462)
totals_raise(df) ==
    \/ "PIECES" \in df.cols /\ sum_raises(df, "PIECES")
    \/ "TOTAL CHARGES" \in df.cols /\ sum_raises(df, "TOTAL CHARGES")

\* the five values of a segment (app1.py:391-394, 426-429, 460-463)
\* the metrics of a segment, its OTP read back from the session's last
\* calculation when the session holds one
segment_metrics_session(df, otp) ==
    [volume    |-> Len(df.rows),
     pieces    |-> IF "PIECES" \in df.cols THEN col_sum(df, "PIECES") ELSE NumCell(0),
     revenue   |-> IF "TOTAL CHARGES" \in df.cols
                   THEN col_sum(df, "TOTAL CHARGES") ELSE NumCell(0),
     gross_otp |-> IF otp_debug.written /\ otp_debug.valid_shipments > 0
                   THEN Round2(otp_debug.gross_ontime, otp_debug.valid_shipments)
                   ELSE otp.gross,
     net_otp   |-> IF otp_debug.written /\ otp_debug.controllable_shipments > 0
                   THEN Round2(otp_debug.net_ontime, otp_debug.controllable_shipments)
                   ELSE otp.net]

segment_metrics(df, otp) ==
    [volume    |-> Len(df.rows),
     pieces    |-> IF "PIECES" \in df.cols THEN col_sum(df, "PIECES") ELSE NumCell(0),
     revenue   |-> IF "TOTAL CHARGES" \in df.cols
                   THEN col_sum(df, "TOTAL CHARGES") ELSE NumCell(0),
     gross_otp |-> otp.gross,
     net_otp   |-> otp.net]

\* what a calculate_otp call leaves in st.session_state.otp_debug
session_after(otp, before) == IF otp.debug.written THEN otp.debug ELSE before

\* the RadioPharma frame taken as the whole AMS sheet
rp_filter_all(df_ams) == df_ams

\* app1.py:388, the rows of the AMS sheet that are RadioPharma
rp_filter(df_ams) ==
    Filter(df_ams, [i \in 1..Len(df_ams.rows) |-> isin_RP(df_ams.rows[i].cells["ACCT NM"])])

\* app1.py:417, the column is_healthcare
with_is_healthcare(combined) ==
    [combined EXCEPT !.cols = @ \cup {"is_healthcare"},
                     !.rows = [i \in 1..Len(combined.rows) |->
                                 [combined.rows[i] EXCEPT !.extra =
                                    [flag |-> is_healthcare(combined.rows[i].cells["ACCT NM"])]]]]

\* app1.py:418-421, the LifeSciences rows of the combined frame
lfs_filter(combined) ==
    Filter(combined, [i \in 1..Len(combined.rows) |->
                        /\ combined.rows[i].extra.flag
                        /\ ~isin_RP(combined.rows[i].cells["ACCT NM"])])

\* app1.py:451, the column is_aviation
with_is_aviation(combined) ==
    [combined EXCEPT !.cols = @ \cup {"is_aviation"},
                     !.rows = [i \in 1..Len(combined.rows) |->
                                 [combined.rows[i] EXCEPT !.extra =
                                    [flag |-> is_aviation(combined.rows[i].cells["ACCT NM"])]]]]

\* app1.py:452-455, the Aviation rows of the combined frame
avs_filter(combined) ==
    Filter(combined, [i \in 1..Len(combined.rows) |->
                        /\ combined.rows[i].extra.flag
                        /\ ~isin_RP(combined.rows[i].cells["ACCT NM"])])

\* app1.py:384-401.  df_ams['ACCT NM'] raises KeyError on a sheet without the
\* column and a sum may raise TypeError; the except block (app1.py:590-592)
\* ends the run.
App1RP ==
    /\ pc = "rp" /\ prog = "app1"
    /\ IF ~readable
       THEN pc' = "error" /\ UNCHANGED <<rp_df, rp_metrics, otp_debug>>
       ELSE
       IF wb["AMS"].present
       THEN LET df_ams == read_excel(wb, "AMS")
            IN  IF "ACCT NM" \notin df_ams.cols
                THEN /\ pc' = "error"
                     /\ UNCHANGED <<rp_df, rp_metrics, otp_debug>>
                ELSE LET df  == rp_filter(df_ams)
                         otp == calculate_otp(df)
                     IN  IF totals_raise(df)
                         THEN /\ rp_df' = df
                              /\ pc' = "error"
                              /\ UNCHANGED <<rp_metrics, otp_debug>>
                         ELSE /\ rp_df' = df
                              /\ rp_metrics' = segment_metrics(df, otp)
                              /\ otp_debug' = session_after(otp, otp_debug)
                              /\ pc' = "lfs"
       ELSE /\ rp_df' = EmptyFrame
            /\ rp_metrics' = NoMetrics
            /\ pc' = "lfs"
            /\ UNCHANGED otp_debug
    /\ UNCHANGED <<wb, readable, prog, lfs_df, avs_df, lfs_combined, avs_combined,
                   lfs_metrics, avs_metrics>>

\* app1.py:403-436
App1LFS ==
    /\ pc = "lfs" /\ prog = "app1"
    /\ LET lfs_dfs == sheet_frames(wb, <<"AMS", "Americas International Desk">>)
       IN  IF Len(lfs_dfs) > 0
           THEN LET combined == IF "ACCT NM" \in concat(lfs_dfs).cols
                                THEN with_is_healthcare(concat(lfs_dfs))
                                ELSE concat(lfs_dfs)
                    df  == IF "ACCT NM" \in concat(lfs_dfs).cols
                           THEN lfs_filter(combined) ELSE EmptyFrame
                    otp == calculate_otp(df)
                IN  IF totals_raise(df)
                    THEN /\ lfs_combined' = combined
                         /\ lfs_df' = df
                         /\ pc' = "error"
                         /\ UNCHANGED <<lfs_metrics, otp_debug>>
                    ELSE /\ lfs_combined' = combined
                         /\ lfs_df' = df
                         /\ lfs_metrics' = segment_metrics(df, otp)
                         /\ otp_debug' = session_after(otp, otp_debug)
                         /\ pc' = "avs"
           ELSE /\ lfs_df' = EmptyFrame
                /\ lfs_metrics' = NoMetrics
                /\ pc' = "avs"
                /\ UNCHANGED <<lfs_combined, otp_debug>>
    /\ UNCHANGED <<wb, readable, prog, rp_df, avs_df, avs_combined, rp_metrics, avs_metrics>>

\* app1.py:438-470
App1AVS ==
    /\ pc = "avs" /\ prog = "app1"
    /\ LET avs_dfs == sheet_frames(wb, SHEETS)
       IN  IF Len(avs_dfs) > 0
           THEN LET combined == IF "ACCT NM" \in concat(avs_dfs).cols
                                THEN with_is_aviation(concat(avs_dfs))
                                ELSE concat(avs_dfs)
                    df  == IF "ACCT NM" \in concat(avs_dfs).cols
                           THEN avs_filter(combined) ELSE EmptyFrame
                    otp == calculate_otp(df)
                IN  IF totals_raise(df)
                    THEN /\ avs_combined' = combined
                         /\ avs_df' = df
                         /\ pc' = "error"
                         /\ UNCHANGED <<avs_metrics, otp_debug>>
                    ELSE /\ avs_combined' = combined
                         /\ avs_df' = df
                         /\ avs_metrics' = segment_metrics(df, otp)
                         /\ otp_debug' = session_after(otp, otp_debug)
                         /\ pc' = "tabs"
           ELSE /\ avs_df' = EmptyFrame
                /\ avs_metrics' = NoMetrics
                /\ pc' = "tabs"
                /\ UNCHANGED <<avs_combined, otp_debug>>
    /\ UNCHANGED <<wb, readable, prog, rp_df, lfs_df, lfs_combined, rp_metrics, lfs_metrics>>

\* the totals the tabs and the summary format with "{:,}"
shown_totals == {rp_metrics.pieces, rp_metrics.revenue, lfs_metrics.pieces,
                 lfs_metrics.revenue, avs_metrics.pieces, avs_metrics.revenue}

\* app1.py:472-588, the tabs and the summary.  A total that is a text makes
\* the format raise ValueError, and the except block ends the run.
App1Tabs ==
    /\ pc = "tabs" /\ prog = "app1"
    /\ pc' = IF \E t \in shown_totals : t.kind = "str" THEN "error" ELSE "done"
    /\ UNCHANGED <<wb, readable, prog, results>>

-----------------------------------------------------------------------------
(* P2: the main block, part_000:681-770 *)

RECURSIVE P2_sheet_frames(_, _)
\* part_000:712-717
P2_sheet_frames(book, sheets) ==
    IF Len(sheets) = 0 THEN << >>
    ELSE IF book[Head(sheets)].present
    THEN <<P2_filter_by_ams(read_excel(book, Head(sheets)))>>
            \o P2_sheet_frames(book, Tail(sheets))
    ELSE P2_sheet_frames(book, Tail(sheets))

\* part_000:723, the column is_healthcare
P2_with_is_healthcare(combined) ==
    [combined EXCEPT !.cols = @ \cup {"is_healthcare"},
                     !.rows = [i \in 1..Len(combined.rows) |->
                                 [combined.rows[i] EXCEPT !.extra =
                                    [flag |-> P2_is_healthcare(combined.rows[i].cells["ACCT NM"])]]]]

\* part_000:754, the column is_aviation
P2_with_is_aviation(combined) ==
    [combined EXCEPT !.cols = @ \cup {"is_aviation"},
                     !.rows = [i \in 1..Len(combined.rows) |->
                                 [combined.rows[i] EXCEPT !.extra =
                                    [flag |-> P2_is_aviation(combined.rows[i].cells["ACCT NM"])]]]]

\* part_000:724 and :755, the rows whose flag is True
flag_filter(combined) ==
    Filter(combined, [i \in 1..Len(combined.rows) |-> combined.rows[i].extra.flag])

\* part_000:689-708
P2RP ==
    /\ pc = "rp" /\ prog = "P2"
    /\ IF ~readable
       THEN pc' = "error" /\ UNCHANGED <<rp_df, rp_metrics>>
       ELSE
       IF wb["AMS"].present
       THEN LET df_ams == read_excel(wb, "AMS")
            IN  IF "ACCT NM" \notin df_ams.cols
                THEN /\ pc' = "error"
                     /\ UNCHANGED <<rp_df, rp_metrics>>
                ELSE LET df == rp_filter(df_ams)
                     IN  IF totals_raise(df)
                         THEN /\ rp_df' = df
                              /\ pc' = "error"
                              /\ UNCHANGED rp_metrics
                         ELSE /\ rp_df' = df
                              /\ rp_metrics' = segment_metrics(df, P2_calculate_otp(df))
                              /\ pc' = "lfs"
       ELSE /\ rp_df' = EmptyFrame
            /\ rp_metrics' = [NoMetrics EXCEPT !.gross_otp = Pct(0, 1), !.net_otp = Pct(0, 1)]
            /\ pc' = "lfs"
    /\ UNCHANGED <<wb, readable, prog, lfs_df, avs_df, lfs_combined, avs_combined,
                   lfs_metrics, avs_metrics, otp_debug>>

\* part_000:710-739
P2LFS ==
    /\ pc = "lfs" /\ prog = "P2"
    /\ LET lfs_dfs == P2_sheet_frames(wb, <<"AMS", "Americas International Desk">>)
       IN  IF Len(lfs_dfs) > 0
           THEN LET combined == IF "ACCT NM" \in concat(lfs_dfs).cols
                                THEN P2_with_is_healthcare(concat(lfs_dfs))
                                ELSE concat(lfs_dfs)
                    df == IF "ACCT NM" \in concat(lfs_dfs).cols
                          THEN flag_filter(combined) ELSE EmptyFrame
                IN  IF totals_raise(df)
                    THEN /\ lfs_combined' = combined
                         /\ lfs_df' = df
                         /\ pc' = "error"
                         /\ UNCHANGED lfs_metrics
                    ELSE /\ lfs_combined' = combined
                         /\ lfs_df' = df
                         /\ lfs_metrics' = segment_metrics(df, P2_calculate_otp(df))
                         /\ pc' = "avs"
           ELSE /\ lfs_df' = EmptyFrame
                /\ lfs_metrics' = [NoMetrics EXCEPT !.gross_otp = Pct(0, 1), !.net_otp = Pct(0, 1)]
                /\ pc' = "avs"
                /\ UNCHANGED lfs_combined
    /\ UNCHANGED <<wb, readable, prog, rp_df, avs_df, avs_combined, rp_metrics, avs_metrics,
                   otp_debug>>

\* part_000:741-770
P2AVS ==
    /\ pc = "avs" /\ prog = "P2"
    /\ LET avs_dfs == P2_sheet_frames(wb, SHEETS)
       IN  IF Len(avs_dfs) > 0
           THEN LET combined == IF "ACCT NM" \in concat(avs_dfs).cols
                                THEN P2_with_is_aviation(concat(avs_dfs))
                                ELSE concat(avs_dfs)
                    df == IF "ACCT NM" \in concat(avs_dfs).cols
                          THEN flag_filter(combined) ELSE EmptyFrame
                IN  IF totals_raise(df)
                    THEN /\ avs_combined' = combined
                         /\ avs_df' = df
                         /\ pc' = "error"
                         /\ UNCHANGED avs_metrics
                    ELSE /\ avs_combined' = combined
                         /\ avs_df' = df
                         /\ avs_metrics' = segment_metrics(df, P2_calculate_otp(df))
                         /\ pc' = "tabs"
           ELSE /\ avs_df' = EmptyFrame
                /\ avs_metrics' = [NoMetrics EXCEPT !.gross_otp = Pct(0, 1), !.net_otp = Pct(0, 1)]
                /\ pc' = "tabs"
                /\ UNCHANGED avs_combined
    /\ UNCHANGED <<wb, readable, prog, rp_df, lfs_df, lfs_combined, rp_metrics, lfs_metrics,
                   otp_debug>>

-----------------------------------------------------------------------------
(* P1: the segment frames, part_000:230-273 *)

\* read_sheet: a sheet the workbook does not have, or any sheet of a file
\* that cannot be read, raises in pd.read_excel and reads as pd.DataFrame()
read_sheet(book, s) ==
    IF readable /\ book[s].present THEN read_excel(book, s) ELSE EmptyFrame

RECURSIVE read_many_frames(_, _)
\* the frames read_many concatenates, each with its column Source_Sheet
\* (row.src[1] in this model)
read_many_frames(book, sheets) ==
    IF Len(sheets) = 0 THEN << >>
    ELSE LET df == read_sheet(book, Head(sheets))
         IN  IF ~empty(df)
             THEN <<[df EXCEPT !.cols = @ \cup {"Source_Sheet"}]>>
                     \o read_many_frames(book, Tail(sheets))
             ELSE read_many_frames(book, Tail(sheets))

\* read_many
read_many(book, sheets) == concat(read_many_frames(book, sheets))

\* part_000:253, rp["ACCT NM"].astype(str).str.strip()
strip_names(df) ==
    [df EXCEPT !.rows = [i \in 1..Len(df.rows) |->
        [df.rows[i] EXCEPT !.cells["ACCT NM"] = StrCell(Strip(PyStr(@)))]]]

\* part_000:261 and :270, ["ACCT NM"].astype(str)
str_names(df) ==
    [df EXCEPT !.rows = [i \in 1..Len(df.rows) |->
        [df.rows[i] EXCEPT !.cells["ACCT NM"] = StrCell(PyStr(@))]]]

\* part_000:262-263, the rows kept for LFS
P1_lfs_filter(df) ==
    Filter(df, [i \in 1..Len(df.rows) |->
                  /\ ~P1_is_aviation(df.rows[i].cells["ACCT NM"], df.rows[i].src[1])
                  /\ P1_is_healthcare(df.rows[i].cells["ACCT NM"], df.rows[i].src[1])])

\* part_000:271-272, the rows kept for AVS
P1_avs_filter(df) ==
    Filter(df, [i \in 1..Len(df.rows) |->
                  /\ P1_is_aviation(df.rows[i].cells["ACCT NM"], df.rows[i].src[1])
                  /\ ~P1_is_healthcare(df.rows[i].cells["ACCT NM"], df.rows[i].src[1])])

\* part_000:247-255
P1RP ==
    /\ pc = "rp" /\ prog = "P1"
    /\ LET rp_raw == read_sheet(wb, "AMS")
           rp == IF ~empty(rp_raw) /\ "ACCT NM" \in rp_raw.cols
                 THEN rp_filter(strip_names(rp_raw))
                 ELSE rp_raw
       IN  rp_df' = add_otp_columns(rp)
    /\ pc' = "lfs"
    /\ UNCHANGED <<wb, readable, prog, lfs_df, avs_df, lfs_combined, avs_combined,
                   rp_metrics, lfs_metrics, avs_metrics, otp_debug>>

\* part_000:257-264
P1LFS ==
    /\ pc = "lfs" /\ prog = "P1"
    /\ LET lfs_raw == read_many(wb, <<"AMS", "Americas International Desk">>)
           lfs0 == filter_ams_rows(lfs_raw)
           lfs == IF ~empty(lfs0) /\ "ACCT NM" \in lfs0.cols
                  THEN P1_lfs_filter(str_names(lfs0))
                  ELSE lfs0
       IN  lfs_df' = add_otp_columns(lfs)
    /\ pc' = "avs"
    /\ UNCHANGED <<wb, readable, prog, rp_df, avs_df, lfs_combined, avs_combined,
                   rp_metrics, lfs_metrics, avs_metrics, otp_debug>>

\* part_000:266-273
P1AVS ==
    /\ pc = "avs" /\ prog = "P1"
    /\ LET avs_raw == read_many(wb, SHEETS)
           avs0 == filter_ams_rows(avs_raw)
           avs == IF ~empty(avs0) /\ "ACCT NM" \in avs0.cols
                  THEN P1_avs_filter(str_names(avs0))
                  ELSE avs0
       IN  avs_df' = add_otp_columns(avs)
    /\ pc' = "tabs"
    /\ UNCHANGED <<wb, readable, prog, rp_df, lfs_df, lfs_combined, avs_combined,
                   rp_metrics, lfs_metrics, avs_metrics, otp_debug>>

\* the years datetime.now().year may give
NowYears == {2024, 2025}

\* the three tabs show the KPIs of the years selected in their year boxes
P1Show(rp_year, lfs_year, avs_year) ==
    /\ rp_metrics'  = kpis_for_september(rp_df, rp_year)
    /\ lfs_metrics' = kpis_for_september(lfs_df, lfs_year)
    /\ avs_metrics' = kpis_for_september(avs_df, avs_year)
    /\ UNCHANGED <<wb, readable, prog, rp_df, lfs_df, avs_df, lfs_combined, avs_combined,
                   otp_debug>>

\* part_000:275-340, the three tabs as first drawn: each year box offers
\* the tab's September years (or the current year) with its default
\* selected, and the tab shows the KPIs of that year
P1Tabs ==
    /\ pc = "tabs" /\ prog = "P1"
    /\ \E now \in NowYears :
         P1Show(default_year(pick_september_years(rp_df), now),
                default_year(pick_september_years(lfs_df), now),
                default_year(pick_september_years(avs_df), now))
    /\ pc' = "done"

\* part_000:287,310,332: a year is selected in a year box; the script runs
\* again over the same workbook and the tabs show the selected years
P1SelectYear ==
    /\ pc = "done" /\ prog = "P1"
    /\ \E now \in NowYears :
         \E rp_year  \in year_options(pick_september_years(rp_df), now),
            lfs_year \in year_options(pick_september_years(lfs_df), now),
            avs_year \in year_options(pick_september_years(avs_df), now) :
              P1Show(rp_year, lfs_year, avs_year)
    /\ pc' = "done"

\* a row of a sheet, by column
MakeCells(acct, dep, arr, pod, upd, qdt, qc) ==
    [c \in COLUMNS |->
        CASE c = "ACCT NM"       -> acct
          [] c = "DEP"           -> dep
          [] c = "ARR"           -> arr
          [] c = "POD DATE/TIME" -> pod
          [] c = "UPD DEL"       -> upd
          [] c = "QDT"           -> qdt
          [] c = "QC"            -> qc
          [] c = "PIECES"        -> NumCell(2)
          [] c = "TOTAL CHARGES" -> NumCell(10)
          [] OTHER               -> NaN]

\* the columns of a complete sheet
FullColumns == COLUMNS \ {"DEP STN", "ARR STN", "QC NAME"}

\* 2024-09-05 and 2024-09-06, as Excel holds them
Sep5 == TsCell(45540)
Sep6 == TsCell(45541)

MaxSegRows == 1
MaxNameRows == 1
MaxOtpRows == 2

-----------------------------------------------------------------------------
(* SpecSeg: app1 and P1, SpecSeg2: the two scripts of part_000 (P1 and     *)
(* P2), on workbooks of a few accounts, with sheets that lack a column      *)

SegRows == {MakeCells(a, d, JFK, Sep5, Sep5, NaN, NaN) : a \in SegAccounts, d \in {AMS_, JFK}}

SegColumnSets == {FullColumns, FullColumns \ {"ACCT NM"}, FullColumns \ {"ARR"}}

SegAddSheet == \E s \in SheetNames, cols \in SegColumnSets : AddSheet(s, cols)

SegAddRow == \E s \in SheetNames, cells \in SegRows : AddRow(s, cells, MaxSegRows)

SegUpload == \E p \in {"app1", "P1"} : Upload(p)

NextSeg ==
    \/ SegAddSheet
    \/ SegAddRow
    \/ SegUpload
    \/ App1RP \/ App1LFS \/ App1AVS \/ App1Tabs
    \/ P1RP \/ P1LFS \/ P1AVS \/ P1Tabs \/ P1SelectYear

SpecSeg == Init /\ [][NextSeg]_vars

Seg2Upload == \E p \in {"P1", "P2"} : Upload(p)

NextSeg2 ==
    \/ SegAddSheet
    \/ SegAddRow
    \/ Seg2Upload
    \/ P1RP \/ P1LFS \/ P1AVS \/ P1Tabs \/ P1SelectYear
    \/ P2RP \/ P2LFS \/ P2AVS

SpecSeg2 == Init /\ [][NextSeg2]_vars

-----------------------------------------------------------------------------
(* SpecNames: app1 on one-row workbooks, over every allow-listed account   *)
(* and names of every keyword mix                                           *)

NameRows == {MakeCells(a, d, JFK, Sep5, Sep5, NaN, NaN) : a \in NameAccounts, d \in {AMS_, JFK}}

NameAddSheet == \E s \in SheetNames : AddSheet(s, FullColumns)

NameAddRow == \E s \in SheetNames, cells \in NameRows : AddRow(s, cells, MaxNameRows)

NameUpload == Upload("app1")

NextNames ==
    \/ NameAddSheet
    \/ NameAddRow
    \/ NameUpload
    \/ App1RP \/ App1LFS \/ App1AVS \/ App1Tabs

SpecNames == Init /\ [][NextNames]_vars

-----------------------------------------------------------------------------
(* SpecOtp: app1 on an AMS sheet of RadioPharma rows, over the dates and   *)
(* QC annotations that decide calculate_otp                                 *)

OtpRows == {MakeCells(MarkenLtd, AMS_, JFK, pod, upd, qdt, qc) :
              pod \in {NaN, Sep5, Sep6},
              upd \in {NaN, Sep5},
              qdt \in {NaN, Sep6},
              qc  \in QcCells}

OtpColumnSets == {FullColumns, FullColumns \ {"QC"}, FullColumns \ {"POD DATE/TIME"},
                  FullColumns \ {"UPD DEL", "QDT"}}

OtpAddSheet == \E cols \in OtpColumnSets : AddSheet("AMS", cols)

OtpAddRow == \E cells \in OtpRows : AddRow("AMS", cells, MaxOtpRows)

OtpUpload == Upload("app1")

NextOtp ==
    \/ OtpAddSheet
    \/ OtpAddRow
    \/ OtpUpload
    \/ App1RP \/ App1LFS \/ App1AVS \/ App1Tabs

SpecOtp == Init /\ [][NextOtp]_vars

-----------------------------------------------------------------------------
(* SpecQc: app1 on an AMS sheet of RadioPharma rows, over QC annotations   *)
(* that meet or miss each pattern of calculate_otp                          *)

MaxQcRows == 1

QcRows == {MakeCells(MarkenLtd, AMS_, JFK, pod, Sep5, NaN, qc) :
             pod \in {Sep5, Sep6}, qc \in QcSamples}

QcAddSheet == AddSheet("AMS", FullColumns)

QcAddRow == \E cells \in QcRows : AddRow("AMS", cells, MaxQcRows)

QcUpload == Upload("app1")

NextQc ==
    \/ QcAddSheet
    \/ QcAddRow
    \/ QcUpload
    \/ App1RP \/ App1LFS \/ App1AVS \/ App1Tabs

SpecQc == Init /\ [][NextQc]_vars

-----------------------------------------------------------------------------
(* SpecSum: app1 on an AMS sheet whose PIECES and TOTAL CHARGES cells are  *)
(* numbers, empty or texts                                                  *)

MaxSumRows == 2

SumRows == {[MakeCells(a, AMS_, JFK, Sep5, Sep5, NaN, NaN)
               EXCEPT !["PIECES"] = p, !["TOTAL CHARGES"] = c] :
              a \in {MarkenLtd, SanofiPharma, LufthansaCargo},
              p \in {NumCell(2), NaN, Tbd},
              c \in {NumCell(10), NaN, Tbd}}

SumAddSheet == AddSheet("AMS", FullColumns)

SumAddRow == \E cells \in SumRows : AddRow("AMS", cells, MaxSumRows)

SumUpload == Upload("app1")

NextSum ==
    \/ SumAddSheet
    \/ SumAddRow
    \/ SumUpload
    \/ App1RP \/ App1LFS \/ App1AVS \/ App1Tabs

SpecSum == Init /\ [][NextSum]_vars

-----------------------------------------------------------------------------
(* SpecDates: P1 on an AMS sheet of RadioPharma rows whose POD column      *)
(* mixes dates, date texts, serial numbers and cells that are no date       *)

MaxDateRows == 3

DateCells == {NaN, Sep5, IsoText, NotADate, SerialText, SerialNumber}

DateRows == {MakeCells(MarkenLtd, AMS_, JFK, pod, Sep5, NaN, NaN) : pod \in DateCells}

DateAddSheet == AddSheet("AMS", FullColumns)

DateAddRow == \E cells \in DateRows : AddRow("AMS", cells, MaxDateRows)

DateUpload == Upload("P1")

NextDates ==
    \/ DateAddSheet
    \/ DateAddRow
    \/ DateUpload
    \/ P1RP \/ P1LFS \/ P1AVS \/ P1Tabs \/ P1SelectYear

SpecDates == Init /\ [][NextDates]_vars

-----------------------------------------------------------------------------
(* SpecKpi: P1 on an AMS sheet of RadioPharma rows, over the delivery      *)
(* dates and QC NAME annotations that decide kpis_for_september             *)

\* 2023-09-05 and 2024-10-05
Sep5_2023 == TsCell(45174)
Oct5 == TsCell(45570)

MaxKpiRows == 2

KpiColumns == (FullColumns \ {"QC"}) \cup {"QC NAME"}

KpiRows == {[MakeCells(MarkenLtd, AMS_, JFK, pod, upd, Sep6, NaN) EXCEPT !["QC NAME"] = qc] :
              pod \in {NaN, Sep5, Sep6, Sep5_2023, Oct5},
              upd \in {NaN, Sep5},
              qc  \in QcCells}

KpiColumnSets == {KpiColumns, KpiColumns \ {"QC NAME"}, KpiColumns \ {"UPD DEL"}}

KpiAddSheet == \E cols \in KpiColumnSets : AddSheet("AMS", cols)

KpiAddRow == \E cells \in KpiRows : AddRow("AMS", cells, MaxKpiRows)

KpiUpload == Upload("P1")

NextKpi ==
    \/ KpiAddSheet
    \/ KpiAddRow
    \/ KpiUpload
    \/ P1RP \/ P1LFS \/ P1AVS \/ P1Tabs \/ P1SelectYear

SpecKpi == Init /\ [][NextKpi]_vars

\* every script on every workbook of the three families
-----------------------------------------------------------------------------
(* SpecFile: app1 and P1 on an upload that is a workbook of one row or a   *)
(* file that cannot be read                                                 *)

MaxFileRows == 1

FileAddSheet == \E s \in SheetNames : AddSheet(s, FullColumns)

FileAddRow == \E s \in SheetNames, cells \in SegRows : AddRow(s, cells, MaxFileRows)

FileUpload == \E p \in {"app1", "P1"} : Upload(p)

FileUploadUnreadable == \E p \in {"app1", "P1"} : UploadUnreadable(p)

NextFile ==
    \/ FileAddSheet
    \/ FileAddRow
    \/ FileUpload
    \/ FileUploadUnreadable
    \/ App1RP \/ App1LFS \/ App1AVS \/ App1Tabs
    \/ P1RP \/ P1LFS \/ P1AVS \/ P1Tabs \/ P1SelectYear

SpecFile == Init /\ [][NextFile]_vars

-----------------------------------------------------------------------------
(* SpecSession: app1 over several uploads in one session, on an AMS sheet   *)
(* of rows of the three segments, with or without its QC column             *)

MaxSessionRows == 2

SessionRows == {MakeCells(a, AMS_, JFK, pod, Sep5, NaN, qc) :
                  a   \in {MarkenLtd, SanofiPharma, LufthansaCargo},
                  pod \in {Sep5, Sep6},
                  qc  \in {NaN, CustomsHold}}

SessionAddSheet == \E cols \in {FullColumns, FullColumns \ {"QC"}} : AddSheet("AMS", cols)

SessionAddRow == \E cells \in SessionRows : AddRow("AMS", cells, MaxSessionRows)

SessionUpload == Upload("app1")

NextSession ==
    \/ SessionAddSheet
    \/ SessionAddRow
    \/ SessionUpload
    \/ App1RP \/ App1LFS \/ App1AVS \/ App1Tabs
    \/ Rerun

SpecSession == Init /\ [][NextSession]_vars

Next == NextSeg \/ NextSeg2 \/ NextNames \/ NextOtp \/ NextQc \/ NextSum \/ NextDates \/ NextKpi
          \/ NextFile \/ NextSession

Spec == Init /\ [][Next]_vars

-----------------------------------------------------------------------------
(* Segment membership *)

\* the rows of a frame, each named by its sheet and its position in the sheet
Members(df) == {df.rows[i].src : i \in 1..Len(df.rows)}

\* the rows of the workbook
SheetRows == UNION {{<<s, i>> : i \in 1..Len(wb[s].rows)} : s \in SheetNames}

\* the account cell of a row of the workbook
AccountOf(r) == wb[r[1]].rows[r[2]]["ACCT NM"]

\* the rows of a frame that come from row r of the workbook
RowsFrom(df, r) == {i \in 1..Len(df.rows) : df.rows[i].src = r}

\* no row is in two of the three segments
SegmentsDisjoint ==
    /\ Members(rp_df) \cap Members(lfs_df) = {}
    /\ Members(rp_df) \cap Members(avs_df) = {}
    /\ Members(lfs_df) \cap Members(avs_df) = {}

\* every sheet of the workbook has the account column
AllSheetsNamed == \A s \in SheetNames : wb[s].present => "ACCT NM" \in wb[s].cols

\* C1: in app1 the RadioPharma, LifeSciences and Aviation frames of a run
\* never share a row (sheet and position), whatever the workbook.
C1_App1SegmentsDisjoint == prog = "app1" => SegmentsDisjoint

\* a finished app1 run with a RadioPharma row that carries a healthcare
\* keyword and passed the office filter of the LifeSciences and of the
\* Aviation frame
C1_Witness ==
    /\ prog = "app1" /\ pc = "tabs"
    /\ \E r \in Members(rp_df) \cap Members(lfs_combined) \cap Members(avs_combined) :
          healthcare_keyword_in[PyStr(AccountOf(r))]

\* C2: in P1 and in P2 the three segments of a run never share a row, rows of
\* allow-listed accounts with DEP or ARR AMS included (stated here for the
\* workbooks whose sheets all have the account column).
C2_OtherSegmentsDisjoint ==
    (prog \in {"P1", "P2"} /\ AllSheetsNamed) => SegmentsDisjoint

\* C3: in app1 a name that is an entry of RP_ACCOUNTS is an RP account and
\* gets False from is_healthcare and from is_aviation, in the flag columns of
\* the run too, and its row of the AMS sheet is in RadioPharma and in neither
\* LifeSciences nor Aviation.
C3_AllowListWins ==
    prog = "app1" =>
        \A r \in SheetRows :
            AccountOf(r) \in RPCells =>
                /\ is_rp_account(AccountOf(r))
                /\ ~is_healthcare(AccountOf(r))
                /\ ~is_aviation(AccountOf(r))
                /\ \A i \in RowsFrom(lfs_combined, r) : ~lfs_combined.rows[i].extra.flag
                /\ \A i \in RowsFrom(avs_combined, r) : ~avs_combined.rows[i].extra.flag
                /\ r \notin Members(lfs_df) \cup Members(avs_df)
                /\ (r[1] = "AMS" /\ pc \in {"lfs", "avs", "tabs"}) => r \in Members(rp_df)

\* a finished run over an AMS row of an allow-listed name that carries a
\* healthcare keyword and passed the office filter
C3_Witness ==
    /\ prog = "app1" /\ pc = "tabs"
    /\ \E r \in Members(rp_df) :
          /\ AccountOf(r) \in RPCells
          /\ healthcare_keyword_in[PyStr(AccountOf(r))]
          /\ RowsFrom(lfs_combined, r) # {}
          /\ RowsFrom(avs_combined, r) # {}

\* the name is an entry of RP_ACCOUNTS once its surrounding whitespace is removed
TrimsToRP(c) == c.kind = "str" /\ InList(RP_ACCOUNTS, Strip(c.text))

\* C4: in app1 a name that equals an entry of RP_ACCOUNTS after trimming is
\* classified RadioPharma (its AMS row is in the RadioPharma frame) and is
\* never placed in LifeSciences or Aviation.
C4_TrimmedAllowListMatch ==
    (prog = "app1" /\ pc = "tabs") =>
        \A r \in SheetRows :
            TrimsToRP(AccountOf(r)) =>
                /\ r \notin Members(lfs_df) \cup Members(avs_df)
                /\ r[1] = "AMS" => r \in Members(rp_df)

\* the name is not on the allow-list and carries a keyword of both lists
BothKeywords(c) ==
    /\ c.kind = "str"
    /\ ~InList(RP_ACCOUNTS, c.text)
    /\ aviation_keyword_in[c.text]
    /\ healthcare_keyword_in[c.text]

\* C5 as amended: in app1 a name off the allow-list that carries a keyword of
\* both lists gets False from is_aviation and from is_healthcare, and its row
\* is in none of the three segments.
C5_BothKeywordsUnclassified ==
    prog = "app1" =>
        \A r \in SheetRows :
            BothKeywords(AccountOf(r)) =>
                /\ ~is_aviation(AccountOf(r))
                /\ ~is_healthcare(AccountOf(r))
                /\ \A i \in RowsFrom(avs_combined, r) : ~avs_combined.rows[i].extra.flag
                /\ \A i \in RowsFrom(lfs_combined, r) : ~lfs_combined.rows[i].extra.flag
                /\ r \notin Members(rp_df) \cup Members(lfs_df) \cup Members(avs_df)

\* a finished run in which both flag columns were computed for such a name
C5_Witness ==
    /\ prog = "app1" /\ pc = "tabs"
    /\ \E r \in SheetRows :
          /\ BothKeywords(AccountOf(r))
          /\ RowsFrom(avs_combined, r) # {}
          /\ RowsFrom(lfs_combined, r) # {}

\* C5 as the specification has it: such a name is Aviation, is_aviation
\* returns True and is_healthcare returns False.
C5_AviationWinsTie ==
    (prog = "app1" /\ pc = "tabs") =>
        \A r \in SheetRows :
            BothKeywords(AccountOf(r)) =>
                /\ is_aviation(AccountOf(r))
                /\ ~is_healthcare(AccountOf(r))
                /\ \A i \in RowsFrom(avs_combined, r) : avs_combined.rows[i].extra.flag

\* the name is empty, missing or not a string
BlankName(c) == c.kind # "str" \/ c.text = << >>

\* C6: an empty, missing or non-string name is Unclassified: in app1 the three
\* functions return False for it, and in P1 its row, from any of the three
\* sheets, is in none of the three segments.
C6_BlankNameUnclassified ==
    \A r \in SheetRows :
        ("ACCT NM" \in wb[r[1]].cols /\ BlankName(AccountOf(r))) =>
            /\ prog = "app1" =>
                  /\ ~is_rp_account(AccountOf(r))
                  /\ ~is_healthcare(AccountOf(r))
                  /\ ~is_aviation(AccountOf(r))
                  /\ \A i \in RowsFrom(lfs_combined, r) : ~lfs_combined.rows[i].extra.flag
                  /\ \A i \in RowsFrom(avs_combined, r) : ~avs_combined.rows[i].extra.flag
            /\ prog = "P1" =>
                  r \notin Members(rp_df) \cup Members(lfs_df) \cup Members(avs_df)

-----------------------------------------------------------------------------
(* On-time performance of a segment frame *)

\* the frame has rows, a POD column and a target column
HasDates(df) ==
    /\ ~empty(df)
    /\ "POD DATE/TIME" \in df.cols
    /\ get_target_series(df) # "none"

\* the rows whose POD and target timestamps are both non-null
ValidRows(df) ==
    IF ~HasDates(df) THEN {}
    ELSE LET pod    == excel_to_dt(Column(df, "POD DATE/TIME"))
             target == excel_to_dt(Column(df, get_target_series(df)))
         IN  {i \in 1..Len(df.rows) : ~pod[i].nat /\ ~target[i].nat}

\* the valid rows whose POD is at or before the target
OnTimeRows(df) ==
    IF ~HasDates(df) THEN {}
    ELSE LET pod    == excel_to_dt(Column(df, "POD DATE/TIME"))
             target == excel_to_dt(Column(df, get_target_series(df)))
         IN  {i \in ValidRows(df) :
                \/ pod[i].day < target[i].day
                \/ pod[i].day = target[i].day /\ pod[i].ns <= target[i].ns}

\* the rows whose QC annotation is non-controllable
NonControllableRows(df) ==
    IF "QC" \notin df.cols THEN {}
    ELSE {i \in 1..Len(df.rows) : non_controllable_cell(df.rows[i].cells["QC"])}

\* p, in hundredths of a percent, is 100 n / d rounded to two decimals
IsPct(p, n, d) ==
    LET diff == d * p - 10000 * n
    IN  2 * (IF diff < 0 THEN -diff ELSE diff) <= d

\* C7 over one segment: Gross OTP is on-time valid rows over valid rows, and 0
\* without valid rows
GrossOtpOf(df, m) ==
    IF ValidRows(df) = {} THEN m.gross_otp = 0
    ELSE IsPct(m.gross_otp, Cardinality(OnTimeRows(df)), Cardinality(ValidRows(df)))

\* C7: calculate_otp of app1 counts a record as valid iff its POD and its
\* target are non-null, as on-time iff it is valid and POD <= target (a tie is
\* on-time), and returns Gross OTP = on-time / valid x 100 to two decimals; it
\* returns 0.0 with no valid record, an empty frame or no POD/target column.
C7_GrossOtp ==
    prog = "app1" =>
        /\ GrossOtpOf(rp_df, rp_metrics)
        /\ GrossOtpOf(lfs_df, lfs_metrics)
        /\ GrossOtpOf(avs_df, avs_metrics)

\* a RadioPharma frame of two valid records, one delivered exactly at its
\* target and one late: Gross OTP is 50.00
C7_Witness ==
    /\ prog = "app1" /\ pc = "tabs"
    /\ Cardinality(ValidRows(rp_df)) = 2
    /\ \E i \in OnTimeRows(rp_df) :
          rp_df.rows[i].cells["POD DATE/TIME"] = rp_df.rows[i].cells[get_target_series(rp_df)]
    /\ rp_metrics.gross_otp = 5000

\* C8 over one segment
NetOtpOf(df, m) ==
    LET ctrl == ValidRows(df) \ NonControllableRows(df)
    IN  ("QC" \in df.cols /\ ctrl # {}) =>
            IsPct(m.net_otp, Cardinality(ctrl \cap OnTimeRows(df)), Cardinality(ctrl))

\* C8: with a QC column and at least one valid controllable record, Net OTP
\* of app1 is the ratio of the valid controllable on-time records to the valid
\* controllable records x 100 to two decimals, not clamped against Gross OTP.
C8_NetOtpRawRatio ==
    prog = "app1" =>
        /\ NetOtpOf(rp_df, rp_metrics)
        /\ NetOtpOf(lfs_df, lfs_metrics)
        /\ NetOtpOf(avs_df, avs_metrics)

\* a run whose Net OTP is below its Gross OTP: the on-time record is
\* non-controllable, the late one is controllable
C8_Witness ==
    /\ prog = "app1" /\ pc = "tabs"
    /\ "QC" \in rp_df.cols
    /\ ValidRows(rp_df) \ NonControllableRows(rp_df) # {}
    /\ NonControllableRows(rp_df) \cap OnTimeRows(rp_df) # {}
    /\ rp_metrics.net_otp < rp_metrics.gross_otp

\* the frame has a QC column and valid records, all of them non-controllable
NoControllable(df) ==
    /\ "QC" \in df.cols
    /\ ValidRows(df) # {}
    /\ ValidRows(df) \subseteq NonControllableRows(df)

\* C9 as amended: with valid records but no controllable valid record, Net
\* OTP of app1 is 0.0, whatever Gross OTP is.
C9_NetOtpZero ==
    prog = "app1" =>
        /\ NoControllable(rp_df) => rp_metrics.net_otp = 0
        /\ NoControllable(lfs_df) => lfs_metrics.net_otp = 0
        /\ NoControllable(avs_df) => avs_metrics.net_otp = 0

\* every valid record is non-controllable and on time: Gross 100.00, Net 0.00
C9_Witness ==
    /\ prog = "app1" /\ pc = "tabs"
    /\ NoControllable(rp_df)
    /\ rp_metrics.gross_otp = 10000
    /\ rp_metrics.net_otp = 0

\* C9 as the specification has it: with valid records but no controllable
\* valid record, Net OTP falls back to Gross OTP.
C9_NetOtpFallsBack ==
    (prog = "app1" /\ pc \in {"lfs", "avs", "tabs"} /\ NoControllable(rp_df)) =>
        rp_metrics.net_otp = rp_metrics.gross_otp

\* C10: when no record has a non-controllable QC annotation (no QC column, or
\* no QC value that matches a pattern), Net OTP of app1 equals Gross OTP.
C10_NetEqualsGross ==
    prog = "app1" =>
        /\ NonControllableRows(rp_df) = {} => rp_metrics.net_otp = rp_metrics.gross_otp
        /\ NonControllableRows(lfs_df) = {} => lfs_metrics.net_otp = lfs_metrics.gross_otp
        /\ NonControllableRows(avs_df) = {} => avs_metrics.net_otp = avs_metrics.gross_otp

\* a QC column whose annotations match no pattern, over an on-time record and
\* a record without POD: Net = Gross = 100.00
C10_Witness ==
    /\ prog = "app1" /\ pc = "tabs"
    /\ "QC" \in rp_df.cols
    /\ NonControllableRows(rp_df) = {}
    /\ \E i \in ValidRows(rp_df) : rp_df.rows[i].cells["QC"] = LatePickup
    /\ Cardinality(ValidRows(rp_df)) < Len(rp_df.rows)
    /\ rp_metrics.gross_otp = 10000
    /\ rp_metrics.net_otp = 10000
-----------------------------------------------------------------------------
(* P1: the KPIs shown by the tabs *)

\* the rows of a P1 frame shown for the year whose KPIs are reported: the
\* rows with a September POD of a year for which k is kpis_for_september
ShownYears(df, k) == {y \in 2023..2025 : k = kpis_for_september(df, y)}

\* the P1 run has shown its tabs
P1Done == prog = "P1" /\ pc = "done"

\* C11: in P1, when no record of the RadioPharma frame has a QC NAME that
\* matches the non-controllable patterns and the reported KPIs have a Gross
\* OTP (some record has both a POD and a target date), the reported Net OTP
\* equals the reported Gross OTP
C11_NetEqualsGrossWithoutQc ==
    (/\ P1Done
     /\ \A i \in 1..Len(rp_df.rows) : ~rp_df.rows[i].extra.Is_Controllable
     /\ rp_metrics.gross # PctNaN)
        => rp_metrics.net = rp_metrics.gross

\* the records of a P1 frame whose QC NAME does not match CTRL_REGEX
WithoutQcMatch(df) ==
    Filter(df, [i \in 1..Len(df.rows) |-> ~df.rows[i].extra.Is_Controllable])

\* C12: in P1, a record whose QC NAME matches the non-controllable patterns
\* is left out of Net OTP: the reported Net OTP is the Net OTP of the
\* records without such a match, whenever those give one
C12_QcMatchOutOfNet ==
    P1Done =>
        \A y \in ShownYears(rp_df, rp_metrics) :
            kpis_for_september(WithoutQcMatch(rp_df), y).net # PctNaN
                => rp_metrics.net = kpis_for_september(WithoutQcMatch(rp_df), y).net

-----------------------------------------------------------------------------
(* app1: the QC annotations that make a record non-controllable *)

\* the QC text of a record as calculate_otp reads it: '' for an empty cell,
\* upper case otherwise
QcTextOf(row) ==
    IF row.cells["QC"].kind = "nan" THEN << >> ELSE Upper(PyStr(row.cells["QC"]))

\* the term of one or two words is in x at position i with gap whitespace
\* characters between its words, delimited by word boundaries
TermAt(x, term, i, gap) ==
    LET last == term[Len(term)]
        j    == IF Len(term) = 1 THEN i ELSE i + Len(term[1]) + gap
    IN  /\ WordBoundary(x, i)
        /\ MatchAt(x, term[1], i)
        /\ \A k \in (i + Len(term[1]))..(j - 1) : IsSpace(x[k])
        /\ MatchAt(x, last, j)
        /\ WordBoundary(x, j + Len(last))

\* x holds one of the twelve terms, the words of a two-word term separated
\* by any run of whitespace (none included)
HasTerm(x) ==
    \E p \in 1..Len(non_controllable_patterns), i \in 1..Len(x), gap \in 0..Len(x) :
        TermAt(x, non_controllable_patterns[p], i, gap)

\* x holds one of the twelve terms as written, one space between two words
HasLiteralTerm(x) ==
    \E p \in 1..Len(non_controllable_patterns), i \in 1..Len(x) :
        TermAt(x, non_controllable_patterns[p], i, 1)

\* app1 has computed the RadioPharma metrics
App1AfterRP == prog = "app1" /\ pc \in {"lfs", "avs", "tabs", "done"}

\* C13: in calculate_otp of app1, a record is non-controllable iff its QC
\* text holds, whatever the case and delimited by word boundaries, one of
\* AGENT, DEL AGT, DELIVERY AGENT, CUSTOMS, WAREHOUSE, W/HOUSE, WH,
\* CLEARANCE, REGULATORY, GOVERNMENT, WEATHER, FORCE MAJEURE, where the two
\* words of a term may be separated by any run of whitespace or by none; a
\* record with a missing, null or empty QC annotation is controllable
C13_NonControllableTerms ==
    App1AfterRP =>
        otp_debug.non_controllable_shipments =
            Cardinality({i \in 1..Len(rp_df.rows) : HasTerm(QcTextOf(rp_df.rows[i]))})

\* a record annotated 'FORCE MAJEURE' was counted non-controllable, or a
\* record with an empty annotation was counted controllable
C13_Witness ==
    /\ App1AfterRP
    /\ Len(rp_df.rows) = 1
    /\ \/ rp_df.rows[1].cells["QC"] = QcForceMajeure /\ otp_debug.non_controllable_shipments = 1
       \/ rp_df.rows[1].cells["QC"] = QcEmpty /\ otp_debug.controllable_shipments = 1

\* C13 as stated: non-controllable iff the QC text holds one of the twelve
\* terms as written
C13_NonControllableLiteralTerms ==
    App1AfterRP =>
        otp_debug.non_controllable_shipments =
            Cardinality({i \in 1..Len(rp_df.rows) : HasLiteralTerm(QcTextOf(rp_df.rows[i]))})

-----------------------------------------------------------------------------
(* _excel_to_dt, seen through the column _pod of P1's RadioPharma frame *)

\* P1 has built the RadioPharma frame
P1AfterRP == prog = "P1" /\ pc \in {"lfs", "avs", "tabs", "done"}

\* the POD column of the uploaded AMS sheet
PodCells == [i \in 1..Len(wb["AMS"].rows) |-> wb["AMS"].rows[i]["POD DATE/TIME"]]

\* the positions of a column that have no calendar-text reading
Unparsed(s) == {i \in 1..Len(s) : to_datetime(s[i]).nat}

\* the frame keeps every row of the sheet, in the sheet's order
KeepsRows ==
    /\ Len(rp_df.rows) = Len(wb["AMS"].rows)
    /\ \A i \in 1..Len(rp_df.rows) : rp_df.rows[i].src = <<"AMS", i>>

C15_SerialNumberNormalized ==
    (P1AfterRP /\ KeepsRows) =>
        \A i \in 1..Len(PodCells) :
            PodCells[i] = SerialNumber => rp_df.rows[i].extra.pod = Ts(45200)

-----------------------------------------------------------------------------
(* app1: the office filter, missing sheets, totals and target dates *)

\* the cell is a text that contains 'AMS', whatever the case
HasAMS(c) == c.kind = "str" /\ Contains(Upper(c.text), <<"A","M","S">>)

\* C16: in app1 a row is in the LifeSciences or the Aviation segment only if
\* its DEP or its ARR value contains 'AMS', on every sheet, the sheets that
\* have only one of the columns DEP and ARR included
C16_OfficeFilter ==
    prog = "app1" =>
        \A r \in Members(lfs_df) \cup Members(avs_df) :
            \/ HasAMS(wb[r[1]].rows[r[2]]["DEP"])
            \/ HasAMS(wb[r[1]].rows[r[2]]["ARR"])

\* the total of a column with every cell coerced to a number: a missing or
\* non-numeric cell counts 0
CoercedTotal(df, name) ==
    NumCell(SumSeq([i \in 1..Len(df.rows) |->
                      IF df.rows[i].cells[name].kind = "num"
                      THEN df.rows[i].cells[name].num ELSE 0]))

\* C19: in app1 the PIECES and TOTAL CHARGES cells are coerced to numbers
\* before they are summed: a missing or non-numeric cell contributes 0 to the
\* segment's total, and no run ends in an error or with a total that is not
\* a number
C19_TotalsCoerced ==
    prog = "app1" =>
        /\ pc # "error"
        /\ pc \in {"lfs", "avs", "tabs", "done"} =>
              /\ rp_metrics.pieces = CoercedTotal(rp_df, "PIECES")
              /\ rp_metrics.revenue = CoercedTotal(rp_df, "TOTAL CHARGES")
        /\ pc \in {"avs", "tabs", "done"} =>
              /\ lfs_metrics.pieces = CoercedTotal(lfs_df, "PIECES")
              /\ lfs_metrics.revenue = CoercedTotal(lfs_df, "TOTAL CHARGES")
        /\ pc \in {"tabs", "done"} =>
              /\ avs_metrics.pieces = CoercedTotal(avs_df, "PIECES")
              /\ avs_metrics.revenue = CoercedTotal(avs_df, "TOTAL CHARGES")

\* volume 0, pieces 0, revenue 0, Gross OTP 0 and Net OTP 0
ZeroMetrics == [volume |-> 0, pieces |-> NumCell(0), revenue |-> NumCell(0),
                gross_otp |-> 0, net_otp |-> 0]

\* the workbook has none of the three designated sheets
NoDesignatedSheet == \A s \in SheetNames : ~wb[s].present

\* C17: an absent designated sheet raises no exception and contributes no
\* record: in app1 a workbook without 'AMS' gives RadioPharma volume 0,
\* pieces 0, revenue 0, Gross OTP 0 and Net OTP 0, and a workbook with none
\* of the sheets gives these zeros for the three segments; in P1 read_sheet
\* returns an empty frame for a missing sheet and the run goes on
C17_MissingSheets ==
    /\ \A s \in SheetNames : ~wb[s].present =>
          /\ read_sheet(wb, s) = [cols |-> {}, rows |-> << >>]
          /\ \A r \in Members(rp_df) \cup Members(lfs_df) \cup Members(avs_df) : r[1] # s
    /\ (prog = "app1" /\ ~wb["AMS"].present) =>
          /\ pc # "error"
          /\ pc \in {"lfs", "avs", "tabs", "done"} =>
                rp_metrics = ZeroMetrics /\ Len(rp_df.rows) = 0
    /\ (prog = "app1" /\ NoDesignatedSheet /\ pc \in {"tabs", "done"}) =>
          /\ rp_metrics = ZeroMetrics
          /\ lfs_metrics = ZeroMetrics
          /\ avs_metrics = ZeroMetrics
    /\ (prog = "P1" /\ ~wb["AMS"].present) =>
          /\ pc # "error"
          /\ Len(rp_df.rows) = 0

\* app1 has shown its tabs for a workbook without 'AMS' that has rows on
\* another sheet, or P1 has shown its tabs for a workbook without 'AMS'
C17_Witness ==
    /\ pc = "done"
    /\ ~wb["AMS"].present
    /\ \/ /\ prog = "app1"
          /\ Len(wb["Americas International Desk"].rows) > 0
          /\ rp_metrics = ZeroMetrics
       \/ prog = "P1" /\ wb["Aviation SVC"].present

-----------------------------------------------------------------------------
(* P1: the records that count for the KPIs of a September *)

\* the records of a P1 frame whose POD falls in September of year y
Counted(df, y) ==
    {i \in 1..Len(df.rows) :
        /\ ~df.rows[i].extra.pod.nat
        /\ CivilOf(df.rows[i].extra.pod.day) = [year |-> y, month |-> 9]}

\* the counted records that have a target date
Rated(df, y) == {i \in Counted(df, y) : ~df.rows[i].extra.target.nat}

\* the records without a POD
NoPod(df) == {i \in 1..Len(df.rows) : df.rows[i].extra.pod.nat}

\* the pieces of a set of records of a frame
PiecesOf(df, set) ==
    SumSeq([i \in 1..Len(df.rows) |->
              IF i \in set THEN df.rows[i].cells["PIECES"].num ELSE 0])

\* C18: in P1 a record whose POD falls in the selected September and whose
\* target date is missing is left out of the OTP ratios and counts toward
\* the volume and the pieces of kpis_for_september; a record whose POD is
\* missing counts toward neither
C18_MissingTargetCounted ==
    P1Done =>
        \A y \in ShownYears(rp_df, rp_metrics) :
            /\ rp_metrics.volume = Cardinality(Counted(rp_df, y))
            /\ rp_metrics.pieces = PiecesOf(rp_df, Counted(rp_df, y))
            /\ rp_metrics.gross =
                  IF Rated(rp_df, y) = {} THEN PctNaN
                  ELSE Pct(Cardinality({i \in Rated(rp_df, y) :
                                          TsLeq(rp_df.rows[i].extra.pod,
                                                rp_df.rows[i].extra.target)}),
                           Cardinality(Rated(rp_df, y)))

\* the tabs show a frame of a record without POD and a September record
\* without target date: volume 1, pieces 2 and no OTP
C18_Witness ==
    /\ P1Done
    /\ Len(rp_df.rows) = 2
    /\ rp_df.rows[1].extra.pod.nat
    /\ ~rp_df.rows[2].extra.pod.nat /\ rp_df.rows[2].extra.target.nat
    /\ rp_metrics = [volume |-> 1, pieces |-> 2, gross |-> PctNaN, net |-> PctNaN]

\* C18 as stated: a record without POD counts toward volume and pieces too
C18_MissingPodCounted ==
    P1Done =>
        \A y \in ShownYears(rp_df, rp_metrics) :
            /\ rp_metrics.volume = Cardinality(Counted(rp_df, y) \cup NoPod(rp_df))
            /\ rp_metrics.pieces = PiecesOf(rp_df, Counted(rp_df, y) \cup NoPod(rp_df))

-----------------------------------------------------------------------------
(* app1: the target date of a record *)

\* the target of a record taken by itself: its UPD DEL when non-null,
\* otherwise its QDT
RecordTarget(row) ==
    IF ~to_datetime(row.cells["UPD DEL"]).nat
    THEN to_datetime(row.cells["UPD DEL"])
    ELSE to_datetime(row.cells["QDT"])

\* the records with a POD and a target of their own
RecordValid(df) ==
    {i \in 1..Len(df.rows) :
        /\ ~to_datetime(df.rows[i].cells["POD DATE/TIME"]).nat
        /\ ~RecordTarget(df.rows[i]).nat}

\* C20: in app1 the target date is taken record by record, the record's
\* UPD DEL when non-null and its QDT otherwise, so that a record with a POD,
\* no UPD DEL and a QDT is valid for OTP whatever the other records hold:
\* Gross OTP is the share of on-time records among the records with a POD
\* and a target of their own
C20_TargetPerRecord ==
    App1AfterRP =>
        IF RecordValid(rp_df) = {} THEN rp_metrics.gross_otp = 0
        ELSE IsPct(rp_metrics.gross_otp,
                   Cardinality({i \in RecordValid(rp_df) :
                                  TsLeq(to_datetime(rp_df.rows[i].cells["POD DATE/TIME"]),
                                        RecordTarget(rp_df.rows[i]))}),
                   Cardinality(RecordValid(rp_df)))

-----------------------------------------------------------------------------
(* app1: the month of the records that are counted *)

\* the records of an app1 frame whose POD falls in a September
SeptemberRecords(df) ==
    {i \in 1..Len(df.rows) :
        /\ ~to_datetime(df.rows[i].cells["POD DATE/TIME"]).nat
        /\ CivilOf(to_datetime(df.rows[i].cells["POD DATE/TIME"]).day).month = 9}

\* the total of a column over a set of records, a cell that is no number
\* counting 0
TotalOver(df, name, set) ==
    NumCell(SumSeq([i \in 1..Len(df.rows) |->
                      IF i \in set /\ df.rows[i].cells[name].kind = "num"
                      THEN df.rows[i].cells[name].num ELSE 0]))

\* C21: in app1 the volume, pieces and revenue of a segment count only the
\* rows whose POD falls in September; a row with a POD in another month or
\* with no POD contributes nothing
C21_MonthScoped ==
    App1AfterRP =>
        /\ rp_metrics.volume = Cardinality(SeptemberRecords(rp_df))
        /\ rp_metrics.pieces = TotalOver(rp_df, "PIECES", SeptemberRecords(rp_df))
        /\ rp_metrics.revenue = TotalOver(rp_df, "TOTAL CHARGES", SeptemberRecords(rp_df))


(* P1: the KPIs of a September and the year a tab first shows *)

\* the KPIs of a set of records of a frame: their number, their pieces, and
\* over those with a target date the shares delivered on time
KpisOver(df, set) ==
    LET rated == {i \in set : ~df.rows[i].extra.target.nat}
        share(flag(_)) ==
            IF rated = {} THEN PctNaN
            ELSE Pct(Cardinality({i \in rated : flag(df.rows[i])}),
                     Cardinality(rated))
    IN  [volume |-> Cardinality(set),
         pieces |-> PiecesOf(df, set),
         gross  |-> share(LAMBDA r : r.extra.On_Time_Gross),
         net    |-> share(LAMBDA r : r.extra.On_Time_Net)]

\* the most recent September year of a frame, or none
MostRecent(df) ==
    {y \in pick_september_years(df) : \A z \in pick_september_years(df) : z <= y}

\* the KPIs a tab shows when its year box holds its default
DefaultKpis(df) ==
    IF MostRecent(df) = {} THEN KpisOver(df, {})
    ELSE KpisOver(df, Counted(df, CHOOSE y \in MostRecent(df) : TRUE))

\* the step that draws the tabs for the first time
FirstDraw == prog = "P1" /\ pc = "tabs" /\ pc' = "done"

\* C22: in P1 the values of kpis_for_september(df, year) are computed from
\* exactly the records whose POD is present and falls in month 9 of the
\* given year, and the year each tab offers by default is the most recent
\* year returned by pick_september_years
C22_SeptemberOfDefaultYear ==
    /\ [](P1Done =>
            /\ \A y \in ShownYears(rp_df, rp_metrics) :
                   rp_metrics = KpisOver(rp_df, Counted(rp_df, y))
            /\ \A y \in ShownYears(lfs_df, lfs_metrics) :
                   lfs_metrics = KpisOver(lfs_df, Counted(lfs_df, y))
            /\ \A y \in ShownYears(avs_df, avs_metrics) :
                   avs_metrics = KpisOver(avs_df, Counted(avs_df, y)))
    /\ [][FirstDraw =>
            /\ rp_metrics'  = DefaultKpis(rp_df)
            /\ lfs_metrics' = DefaultKpis(lfs_df)
            /\ avs_metrics' = DefaultKpis(avs_df)]_vars

\* the tabs show a frame with records of September 2023 and of September
\* 2024 under the year 2024, whose KPIs differ from those of 2023
C22_Witness ==
    /\ P1Done
    /\ pick_september_years(rp_df) = {2023, 2024}
    /\ rp_metrics = kpis_for_september(rp_df, 2024)
    /\ rp_metrics # kpis_for_september(rp_df, 2023)


(* A file that cannot be read *)

\* C23: when the uploaded file cannot be read as a workbook the run ends in
\* the one error of the script: no segment is computed and no tab or KPI is
\* shown, in app1 as in P1
C23_UnreadableStops ==
    ~readable => pc \in {"input", "rp", "error"}


(* app1: calculate_otp and the session *)

\* the pair calculate_otp returns for a frame, from the frame alone
OtpOfFrame(df) ==
    LET valid  == ValidRows(df)
        intime == OnTimeRows(df)
        ctrl   == valid \ NonControllableRows(df)
        gross  == IF valid = {} THEN 0
                  ELSE Round2(Cardinality(intime), Cardinality(valid))
    IN  [gross_otp |-> gross,
         net_otp   |-> IF valid = {} THEN 0
                       ELSE IF "QC" \notin df.cols THEN gross
                       ELSE IF ctrl = {} THEN 0
                       ELSE Round2(Cardinality(ctrl \cap intime), Cardinality(ctrl))]

\* the OTP pair among the metrics of a segment
OtpPair(m) == [gross_otp |-> m.gross_otp, net_otp |-> m.net_otp]

\* C24: calculate_otp of app1 is deterministic and independent of the calls
\* made before it in the session: the pair it returns for a frame is fixed by
\* the frame and never depends on st.session_state
C24_OtpOfFrameAlone ==
    prog = "app1" =>
        /\ pc \in {"lfs", "avs", "tabs", "done"} => OtpPair(rp_metrics) = OtpOfFrame(rp_df)
        /\ pc \in {"avs", "tabs", "done"} => OtpPair(lfs_metrics) = OtpOfFrame(lfs_df)
        /\ pc \in {"tabs", "done"} => OtpPair(avs_metrics) = OtpOfFrame(avs_df)

\* a run on a sheet without QC column, in a session that holds the
\* calculation of an earlier upload whose ratio was another
C24_Witness ==
    /\ prog = "app1" /\ pc = "done"
    /\ "QC" \notin rp_df.cols
    /\ ValidRows(rp_df) # {}
    /\ otp_debug.written
    /\ rp_metrics.gross_otp = 10000
    /\ otp_debug.gross_ontime = 0


\* the counts of the calculation of a frame
DetailsOfFrame(df) ==
    LET valid == ValidRows(df)
        ctrl  == valid \ NonControllableRows(df)
    IN  [written |-> TRUE,
         total_shipments |-> Len(df.rows),
         valid_shipments |-> Cardinality(valid),
         controllable_shipments |-> Cardinality(ctrl),
         non_controllable_shipments |-> Cardinality(NonControllableRows(df)),
         gross_ontime |-> Cardinality(OnTimeRows(df)),
         net_ontime |-> Cardinality(ctrl \cap OnTimeRows(df))]

\* the tab of a segment shows the details the session holds
ShowsDetails(df) == ~empty(df) /\ otp_debug.written

\* C25: the counts app1 shows under 'OTP Calculation Details' for a segment
\* are those of the calculate_otp call made for that segment in the current
\* run, never those of another segment or of an earlier run
C25_DetailsOfOwnSegment ==
    (prog = "app1" /\ pc = "done") =>
        /\ ShowsDetails(rp_df) => otp_debug = DetailsOfFrame(rp_df)
        /\ ShowsDetails(lfs_df) => otp_debug = DetailsOfFrame(lfs_df)
        /\ ShowsDetails(avs_df) => otp_debug = DetailsOfFrame(avs_df)


(* P1: Net against Gross *)

\* a ratio is at most another; a ratio without value compares with none
PctLeq(a, b) == a[1] * b[2] <= b[1] * a[2]

\* every record of the frame that is on time gross is on time net
NetCoversGross(df) ==
    \A i \in 1..Len(df.rows) :
        df.rows[i].extra.On_Time_Gross => df.rows[i].extra.On_Time_Net

\* the KPIs shown for a frame have Net no lower than Gross, and Net is the
\* share of the records that are on time net, as it is before the clamp
NetUnclamped(df, k) ==
    /\ PctLeq(k.gross, k.net)
    /\ \A y \in ShownYears(df, k) : k.net = KpisOver(df, Counted(df, y)).net

\* C26: in P1 On_Time_Net is true on every record where On_Time_Gross is,
\* so the Net ratio of kpis_for_september before the clamp is never below the
\* Gross ratio: the KPIs never have net < gross and the clamp never changes
\* the result
C26_ClampNeverActs ==
    P1Done =>
        /\ NetCoversGross(rp_df) /\ NetUnclamped(rp_df, rp_metrics)
        /\ NetCoversGross(lfs_df) /\ NetUnclamped(lfs_df, lfs_metrics)
        /\ NetCoversGross(avs_df) /\ NetUnclamped(avs_df, avs_metrics)

\* the tab shows two rated records, one on time and one late that is not on
\* time net: Gross and Net are both 1/2
C26_Witness ==
    /\ P1Done
    /\ \E i, j \in 1..Len(rp_df.rows) :
          /\ rp_df.rows[i].extra.On_Time_Gross
          /\ ~rp_df.rows[j].extra.On_Time_Net
    /\ rp_metrics.gross = Pct(1, 2)
    /\ rp_metrics.net = Pct(1, 2)


(* app1: the range of the two percentages *)

\* the two percentages of a segment lie between 0 and 100, and are 0 where
\* a ratio would have no denominator
OtpInRange(df, m) ==
    /\ m.gross_otp \in 0..10000
    /\ m.net_otp \in 0..10000
    /\ ValidRows(df) = {} => m.gross_otp = 0 /\ m.net_otp = 0

\* C27: Gross and Net OTP returned by calculate_otp of app1 are both within
\* 0 and 100, and no path divides by zero: without valid record both are 0
C27_OtpWithinBounds ==
    prog = "app1" =>
        /\ OtpInRange(rp_df, rp_metrics)
        /\ OtpInRange(lfs_df, lfs_metrics)
        /\ OtpInRange(avs_df, avs_metrics)

\* a RadioPharma frame of two records with target dates and a QC column, of
\* which none has a POD: both percentages are 0
C27_Witness ==
    /\ prog = "app1" /\ pc = "tabs"
    /\ Len(rp_df.rows) = 2
    /\ HasDates(rp_df) /\ "QC" \in rp_df.cols
    /\ \A i \in 1..2 : rp_df.rows[i].cells["POD DATE/TIME"] = NaN
                        /\ rp_df.rows[i].cells["UPD DEL"] = Sep5
    /\ ValidRows(rp_df) = {}
    /\ rp_metrics.gross_otp = 0 /\ rp_metrics.net_otp = 0


(* P1: the accounts of the RadioPharma frame *)

\* every record of the frame carries an account name that is, trimmed, an
\* entry of RP_ACCOUNTS
AllOfRPAccounts(df) ==
    \A i \in 1..Len(df.rows) :
        /\ "ACCT NM" \in df.cols
        /\ TrimsToRP(df.rows[i].cells["ACCT NM"])

\* C28: in P1 every record of rp has an account name that, trimmed, is an
\* entry of RP_ACCOUNTS, for every non-empty AMS sheet, one without the
\* column ACCT NM included
C28_RpOnlyAllowListed ==
    P1AfterRP => AllOfRPAccounts(rp_df)


(* app1: allow-listed accounts on the other sheets *)

\* the rows of the sheets other than AMS whose account is an entry of
\* RP_ACCOUNTS
AllowListedElsewhere ==
    {r \in SheetRows : r[1] # "AMS" /\ "ACCT NM" \in wb[r[1]].cols
                                     /\ AccountOf(r) \in RPCells}

\* the metrics of a segment are those of the records of its frame
MetricsOfFrame(df, m) ==
    /\ m.volume = Cardinality(Members(df))
    /\ "PIECES" \in df.cols => m.pieces = TotalOver(df, "PIECES", 1..Len(df.rows))
    /\ "TOTAL CHARGES" \in df.cols =>
           m.revenue = TotalOver(df, "TOTAL CHARGES", 1..Len(df.rows))
    /\ OtpPair(m) = OtpOfFrame(df)

\* C29: in app1 a row of 'Americas International Desk' or 'Aviation SVC'
\* whose account is on the RadioPharma allow-list is in none of the three
\* segments and adds nothing to their volume, pieces, revenue or OTP, nor to
\* the overall totals, which are the sums of the three
C29_AllowListedElsewhereUncounted ==
    (prog = "app1" /\ pc \in {"tabs", "done"}) =>
        /\ AllowListedElsewhere \cap
              (Members(rp_df) \cup Members(lfs_df) \cup Members(avs_df)) = {}
        /\ MetricsOfFrame(rp_df, rp_metrics)
        /\ MetricsOfFrame(lfs_df, lfs_metrics)
        /\ MetricsOfFrame(avs_df, avs_metrics)

\* the only row of the workbook is on 'Americas International Desk', with
\* DEP AMS and an allow-listed account that carries a healthcare keyword:
\* the three segments are empty and every metric is 0
C29_Witness ==
    /\ prog = "app1" /\ pc = "done"
    /\ \E r \in AllowListedElsewhere :
          /\ r[1] = "Americas International Desk"
          /\ healthcare_keyword_in[AccountOf(r).text]
          /\ wb[r[1]].rows[r[2]]["DEP"] = AMS_
    /\ Members(rp_df) \cup Members(lfs_df) \cup Members(avs_df) = {}
    /\ rp_metrics = NoMetrics /\ lfs_metrics = NoMetrics /\ avs_metrics = NoMetrics


(* P1: the sheet a row comes from *)

\* DEP or ARR of the row of the workbook equals AMS
OfficeAMS(r) ==
    \/ equals_AMS(wb[r[1]].rows[r[2]]["DEP"])
    \/ equals_AMS(wb[r[1]].rows[r[2]]["ARR"])

\* the name of the row carries an aviation keyword and no healthcare keyword
AviationName(r) ==
    /\ contains_any(StrCell(PyStr(AccountOf(r))), P1_aviation_keyword_in)
    /\ ~contains_any(StrCell(PyStr(AccountOf(r))), P1_healthcare_keyword_in)

\* the rule of C30 over the rows of the workbook
SheetProvenance ==
    \A r \in SheetRows :
        /\ r[1] = "Aviation SVC" =>
              /\ OfficeAMS(r) => r \in Members(avs_df)
              /\ r \notin Members(lfs_df)
        /\ (r[1] # "Aviation SVC" /\ OfficeAMS(r)) =>
              (r \in Members(avs_df) <=> AviationName(r))

\* C30: in P1 every row of 'Aviation SVC' whose DEP or ARR equals AMS is in
\* the Aviation segment whatever its account name, and no row of 'Aviation
\* SVC' is in LifeSciences; a row of the other two sheets is in Aviation iff
\* its name carries an aviation keyword and no healthcare keyword
C30_SheetProvenance ==
    P1Done => SheetProvenance

\* the rule over the workbooks whose sheets all have the account column
C30_NamedSheets ==
    (P1Done /\ AllSheetsNamed) => SheetProvenance

=============================================================================
